---- MODULE Spec2Model ----
(***************************************************************************)
(* Model of the flood dashboard repository:                                *)
(*   - preprocess_data.py : the batch aggregator (main), one action per    *)
(*     statement group of main(), run as a sequential program;             *)
(*   - app.py             : the chart parameter resolution of the          *)
(*     dashboard fragments.                                                *)
(*                                                                         *)
(* A data frame is [columns |-> sequence of names, rows |-> sequence of    *)
(* rows], a row a function from column name to cell.  A cell is NA (<<>>,  *)
(* pandas NaN/None), Some(x) (<<x>>, a key, a string or an input number)   *)
(* or a rational <<p, q>> in lowest terms (an aggregated number).          *)
(***************************************************************************)
EXTENDS Integers, Sequences, FiniteSets, TLC

(***************************************************************************)
(* Cells and sequences                                                     *)
(***************************************************************************)
NA == <<>>

Some(x) == <<x>>

Val(c) == c[1]

Range(s) == {s[i] : i \in DOMAIN s}

IndexOf(s, x) == CHOOSE i \in DOMAIN s : s[i] = x

RECURSIVE SumSeq(_)
SumSeq(s) == IF s = <<>> THEN 0 ELSE Head(s) + SumSeq(Tail(s))

RECURSIVE FlattenSeq(_)
FlattenSeq(ss) == IF ss = <<>> THEN <<>> ELSE Head(ss) \o FlattenSeq(Tail(ss))

RECURSIVE GCD(_, _)
GCD(a, b) == IF b = 0 THEN a ELSE GCD(b, a % b)

\* The rational p/q (p >= 0, q > 0) in lowest terms.
Rat(p, q) == LET g == GCD(p, q) IN <<p \div g, q \div g>>

\* The elements of the set S as a sequence in increasing order of rank[x].
RECURSIVE SortSet(_, _)
SortSet(S, rank) ==
    IF S = {} THEN <<>>
    ELSE LET m == CHOOSE x \in S : \A y \in S : rank[x] <= rank[y]
         IN <<m>> \o SortSet(S \ {m}, rank)

\* The integers of the sequence s in non-decreasing order.
RECURSIVE SortInts(_)
SortInts(s) ==
    IF s = <<>> THEN <<>>
    ELSE LET i == CHOOSE j \in DOMAIN s : \A k \in DOMAIN s : s[j] <= s[k]
         IN <<s[i]>> \o SortInts([k \in 1..(Len(s) - 1) |-> IF k < i THEN s[k] ELSE s[k + 1]])

(***************************************************************************)
(* Strings of the data: their lexicographic order (pandas sorts group      *)
(* keys), and the decimal value of a digit string.                         *)
(***************************************************************************)
StringOrder ==
    <<"ESP", "FRA", "PRT", "Southern Europe", "Western Europe", "XKX">>

StrRank(s) == IndexOf(StringOrder, s)

DigitVal ==
    "0" :> 0 @@ "1" :> 1 @@ "2" :> 2 @@ "3" :> 3 @@ "4" :> 4 @@
    "5" :> 5 @@ "6" :> 6 @@ "7" :> 7 @@ "8" :> 8 @@ "9" :> 9

\* int(s) for a sequence of digit characters.
RECURSIVE ParseInt(_)
ParseInt(s) ==
    IF s = <<>> THEN 0
    ELSE 10 * ParseInt(SubSeq(s, 1, Len(s) - 1)) + DigitVal[s[Len(s)]]

\* s[-4:] of a string held as a sequence of characters.
Last4(s) == IF Len(s) <= 4 THEN s ELSE SubSeq(s, Len(s) - 3, Len(s))

(***************************************************************************)
(* Data frame operations (pandas / geopandas)                              *)
(***************************************************************************)
Frame(cols, rows) == [columns |-> cols, rows |-> rows]

Unset == Frame(<<>>, <<>>)

\* df[cols]
SelectCols(df, cols) ==
    Frame(cols, [i \in DOMAIN df.rows |-> [c \in Range(cols) |-> df.rows[i][c]]])

\* df.dropna(subset=[col])
DropNa(df, col) == Frame(df.columns, SelectSeq(df.rows, LAMBDA r : r[col] # NA))

\* df.rename(columns=map): map is a function from old name to new name.
NewName(map, c) == IF c \in DOMAIN map THEN map[c] ELSE c

RenameCols(df, map) ==
    LET old(n) == CHOOSE c \in Range(df.columns) : NewName(map, c) = n
        cols == [i \in DOMAIN df.columns |-> NewName(map, df.columns[i])]
    IN Frame(cols, [i \in DOMAIN df.rows |-> [n \in Range(cols) |-> df.rows[i][old(n)]]])

\* df[col] = cells (one cell per row): the column is appended when new and
\* replaced when present.
SetCol(df, col, cells) ==
    LET cols == IF col \in Range(df.columns) THEN df.columns ELSE Append(df.columns, col)
    IN Frame(cols, [i \in DOMAIN df.rows |->
                       [c \in Range(cols) |-> IF c = col THEN cells[i] ELSE df.rows[i][c]]])

\* df.drop_duplicates(subset=cols): the first row of every distinct key is kept.
DropDuplicates(df, cols) ==
    LET key(r) == [i \in DOMAIN cols |-> r[cols[i]]]
        first(i) == \A j \in 1..(i - 1) : key(df.rows[j]) # key(df.rows[i])
        keep == {i \in DOMAIN df.rows : first(i)}
        idx == SortSet(keep, [i \in keep |-> i])
    IN Frame(df.columns, [k \in DOMAIN idx |-> df.rows[idx[k]]])

\* left.merge(right, on=key, how=...): for every left row in order, one output
\* row per matching right row in order (equal keys match, NaN included); with
\* how="left" an unmatched left row is kept with NA in the right's columns.
MergeCols(left, right, key) ==
    left.columns \o SelectSeq(right.columns, LAMBDA c : c # key)

MergeRows(left, right, key, keepUnmatched) ==
    LET cols == MergeCols(left, right, key)
        join(l, r) == [c \in Range(cols) |-> IF c \in Range(left.columns) THEN l[c] ELSE r[c]]
        pad(l) == [c \in Range(cols) |-> IF c \in Range(left.columns) THEN l[c] ELSE NA]
        matches(l) == SelectSeq(right.rows, LAMBDA r : r[key] = l[key])
        out(l) == LET m == matches(l)
                  IN IF m = <<>>
                     THEN (IF keepUnmatched THEN <<pad(l)>> ELSE <<>>)
                     ELSE [j \in DOMAIN m |-> join(l, m[j])]
    IN FlattenSeq([i \in DOMAIN left.rows |-> out(left.rows[i])])

MergeInner(left, right, key) ==
    Frame(MergeCols(left, right, key), MergeRows(left, right, key, FALSE))

MergeLeft(left, right, key) ==
    Frame(MergeCols(left, right, key), MergeRows(left, right, key, TRUE))

(***************************************************************************)
(* groupby                                                                 *)
(***************************************************************************)
\* Rank of a group key: numeric keys by value, string keys lexicographically.
KeyRank(key, k) == IF key \in {"adm1_code", "year"} THEN Val(k) ELSE StrRank(Val(k))

\* The group keys of df.groupby(key): the distinct non-missing keys, sorted.
GroupKeys(df, key) ==
    LET ks == {df.rows[i][key] : i \in DOMAIN df.rows} \ {NA}
    IN SortSet(ks, [k \in ks |-> KeyRank(key, k)])

\* The rows of one group, in the order of the frame.
GroupRows(df, key, k) == SelectSeq(df.rows, LAMBDA r : r[key] = k)

\* The non-missing values of column m over the rows, as integers.
Present(rows, m) ==
    LET have == SelectSeq(rows, LAMBDA r : r[m] # NA)
    IN [i \in DOMAIN have |-> Val(have[i][m])]

\* The pandas reductions: each skips NaN; mean, median and max of no value
\* are NaN, sum of no value is 0.
StatMean(v) == IF v = <<>> THEN NA ELSE Rat(SumSeq(v), Len(v))

StatMedian(v) ==
    LET s == SortInts(v)
        n == Len(v)
    IN IF n = 0 THEN NA
       ELSE IF n % 2 = 1 THEN Rat(s[(n + 1) \div 2], 1)
       ELSE Rat(s[n \div 2] + s[n \div 2 + 1], 2)

StatMax(v) == IF v = <<>> THEN NA ELSE Rat(SortInts(v)[Len(v)], 1)

\* Mutant of StatSum: sum(min_count=1), no value gives no sum.
StatSum_MissingWhenEmpty(v) == IF v = <<>> THEN NA ELSE Rat(SumSeq(v), 1)

StatSum(v) == Rat(SumSeq(v), 1)

Stat(func, v) ==
    CASE func = "mean" -> StatMean(v)
      [] func = "median" -> StatMedian(v)
      [] func = "max" -> StatMax(v)
      [] func = "sum" -> StatSum(v)

\* Mutant of AggValues: the reductions function-major and metric-minor.
AggValues_FuncMajor(rows, ms, funcs) ==
    [i \in 1..(Len(ms) * Len(funcs)) |->
        Stat(funcs[((i - 1) \div Len(ms)) + 1],
             Present(rows, ms[((i - 1) % Len(ms)) + 1]))]

\* df.groupby(key)[ms].agg(funcs): per group the reductions as a sequence,
\* metric-major and function-minor (the order of the MultiIndex columns).
AggValues(rows, ms, funcs) ==
    [i \in 1..(Len(ms) * Len(funcs)) |->
        Stat(funcs[((i - 1) % Len(funcs)) + 1],
             Present(rows, ms[((i - 1) \div Len(funcs)) + 1]))]

\* Mutant of FlatNames: the two loops of the comprehension swapped.
FlatNames_FuncMajor(ms, funcs) ==
    FlattenSeq([j \in DOMAIN funcs |-> [i \in DOMAIN ms |-> ms[i] \o "_" \o funcs[j]]])

\* [f"{metric}_{func}" for metric in metrics for func in agg_funcs]
FlatNames(ms, funcs) ==
    FlattenSeq([i \in DOMAIN ms |-> [j \in DOMAIN funcs |-> ms[i] \o "_" \o funcs[j]]])

\* df.groupby(key)[ms].agg(funcs).reset_index() with .columns = [key] + names:
\* the names are assigned to the value columns by position.
GroupAgg(df, key, ms, funcs, names) ==
    LET ks == GroupKeys(df, key)
        cols == <<key>> \o names
        row(k) == LET v == AggValues(GroupRows(df, key, k), ms, funcs)
                  IN [c \in Range(cols) |-> IF c = key THEN k ELSE v[IndexOf(names, c)]]
    IN Frame(cols, [i \in DOMAIN ks |-> row(ks[i])])

\* df.groupby(key).size().reset_index(name="flood_count")
GroupSize(df, key) ==
    LET ks == GroupKeys(df, key)
    IN Frame(<<key, "flood_count">>,
             [i \in DOMAIN ks |->
                 [c \in {key, "flood_count"} |->
                     IF c = key THEN ks[i] ELSE Rat(Len(GroupRows(df, key, ks[i])), 1)]])

\* df.groupby(key)[ms].sum().reset_index()
GroupSum(df, key, ms) ==
    LET ks == GroupKeys(df, key)
        cols == <<key>> \o ms
    IN Frame(cols,
             [i \in DOMAIN ks |->
                 [c \in Range(cols) |->
                     IF c = key THEN ks[i]
                     ELSE StatSum(Present(GroupRows(df, key, ks[i]), c))]])

\* gdf.dissolve(by=key).reset_index(): one row per non-missing key, sorted, its
\* geometry the union of the group's geometries (held as the set of them).
Dissolve(df, key) ==
    LET ks == GroupKeys(df, key)
        union(k) == LET g == GroupRows(df, key, k)
                    IN Some({Val(g[i]["geometry"]) : i \in DOMAIN g})
    IN Frame(<<key, "geometry">>,
             [i \in DOMAIN ks |->
                 [c \in {key, "geometry"} |-> IF c = key THEN ks[i] ELSE union(ks[i])]])

\* geometry.simplify(tolerance=0.1, preserve_topology=True)
Simplify(g) == IF g = NA THEN NA ELSE Some(<<"simplified", Val(g)>>)

(***************************************************************************)
(* preprocess_data.py: constants                                           *)
(***************************************************************************)
COUNTRY_CORRECTIONS ==
    2720 :> "Spain" @@ 2961 :> "Timor-Leste" @@
    25351 :> "Montenegro" @@ 25355 :> "Montenegro" @@ 25356 :> "Montenegro" @@
    25365 :> "Montenegro" @@
    25372 :> "Serbia" @@ 25373 :> "Serbia" @@ 25375 :> "Serbia" @@ 25376 :> "Serbia" @@
    25378 :> "Serbia" @@ 25379 :> "Serbia" @@ 25381 :> "Serbia" @@ 25385 :> "Serbia" @@
    25389 :> "Serbia" @@ 25394 :> "Serbia" @@ 25395 :> "Serbia" @@
    40408 :> "Jammu and Kashmir" @@ 40409 :> "Jammu and Kashmir" @@
    40422 :> "Jammu and Kashmir" @@ 40423 :> "Jammu and Kashmir" @@
    40424 :> "Jammu and Kashmir" @@ 40425 :> "Jammu and Kashmir" @@
    40426 :> "Jammu and Kashmir" @@ 40427 :> "Jammu and Kashmir" @@
    40428 :> "Jammu and Kashmir" @@ 40429 :> "Jammu and Kashmir" @@
    40430 :> "Jammu and Kashmir" @@ 40431 :> "Jammu and Kashmir"

ADMIN1_AGGREGATED_FILEPATH == "./data/preprocessed/app_admin1_aggregated.parquet"

COUNTRY_AGGREGATED_FILEPATH == "./data/preprocessed/app_country_aggregated.parquet"

SUBREGION_AGGREGATED_FILEPATH == "./data/preprocessed/app_subregion_aggregated.parquet"

ANNUAL_GLOBAL_FILEPATH == "./data/preprocessed/app_annual_global_totals.parquet"

LAND_OUTLINE_FILEPATH == "./data/preprocessed/app_land_outline.parquet"

OutputFiles ==
    {ADMIN1_AGGREGATED_FILEPATH, COUNTRY_AGGREGATED_FILEPATH, SUBREGION_AGGREGATED_FILEPATH,
     ANNUAL_GLOBAL_FILEPATH, LAND_OUTLINE_FILEPATH}

app_cols ==
    <<"id", "mon-yr-adm1-id", "mon-yr", "adm1_code", "adm1_name", "ISO", "Country",
      "Subregion", "flooded_area", "flooded_area (normalized by adm1 area)",
      "Total Damage, Adjusted ('000 US$) (population-weighted)",
      "Total Damage, Adjusted ('000 US$) (population-weighted, normalized by GDP)",
      "Total Affected (population-weighted)",
      "Total Affected (population-weighted, normalized)",
      "event_precip_mean (mm/day)", "event_precip_75_quant_mean (mm/day)">>

FloodRenames ==
    "Subregion" :> "UN Subregion" @@
    "adm1_name" :> "Admin1 (States/Provinces)" @@
    "flooded_area (normalized by adm1 area)" :> "flooded_area_norm" @@
    "event_precip_mean (mm/day)" :> "avg_precip" @@
    "event_precip_75_quant_mean (mm/day)" :> "extreme_precip_75" @@
    "Total Affected (population-weighted)" :> "pop_affected" @@
    "Total Affected (population-weighted, normalized)" :> "pop_affected_norm" @@
    "Total Damage, Adjusted ('000 US$) (population-weighted)" :> "damages" @@
    "Total Damage, Adjusted ('000 US$) (population-weighted, normalized by GDP)" :>
        "damages_norm"

metrics ==
    <<"damages", "damages_norm", "pop_affected", "pop_affected_norm", "flooded_area",
      "flooded_area_norm", "avg_precip", "extreme_precip_75">>

agg_funcs == <<"mean", "median", "max", "sum">>

NameSentinel == "Administrative unit not available"

(***************************************************************************)
(* preprocess_data.py: the statements of main() as operators               *)
(***************************************************************************)
\* gaul_l1: rename ADM1_CODE, keep adm1_code and geometry, simplify.
PrepGaul(g) ==
    SetCol(SelectCols(RenameCols(g, "ADM1_CODE" :> "adm1_code"), <<"adm1_code", "geometry">>),
           "geometry", [i \in DOMAIN g.rows |-> Simplify(g.rows[i]["geometry"])])

\* flood_df[app_cols].copy()
SubsetFlood(f) == SelectCols(f, app_cols)

\* Mutant of DropMissingTime: dropna() without subset, a row with any missing
\* cell is dropped.
DropMissingTime_AnyColumn(fs) ==
    Frame(fs.columns, SelectSeq(fs.rows, LAMBDA r : \A c \in Range(fs.columns) : r[c] # NA))

\* Mutant of DropMissingTime: dropna(subset=["mon-yr", "adm1_code"]).
DropMissingTime_AlsoMissingCode(fs) == DropNa(DropNa(fs, "mon-yr"), "adm1_code")

\* flood_df_subset.dropna(subset=["mon-yr"])
DropMissingTime(fs) == DropNa(fs, "mon-yr")

\* Mutant of CorrectCountries: the assignment is not masked, a matching code
\* sets the Country of every row.
CorrectCountries_WholeColumn(fs) ==
    LET hits == {Val(fs.rows[i]["adm1_code"]) : i \in {j \in DOMAIN fs.rows :
                    /\ fs.rows[j]["adm1_code"] # NA
                    /\ Val(fs.rows[j]["adm1_code"]) \in DOMAIN COUNTRY_CORRECTIONS}}
    IN IF hits = {} THEN fs
       ELSE SetCol(fs, "Country",
                   [i \in DOMAIN fs.rows |->
                       Some(COUNTRY_CORRECTIONS[CHOOSE c \in hits : \A d \in hits : d <= c])])

\* for code, correct_country in COUNTRY_CORRECTIONS.items(): ... .loc[mask, "Country"]
CorrectCountries(fs) ==
    SetCol(fs, "Country",
           [i \in DOMAIN fs.rows |->
               LET r == fs.rows[i]
               IN IF r["adm1_code"] # NA /\ Val(r["adm1_code"]) \in DOMAIN COUNTRY_CORRECTIONS
                  THEN Some(COUNTRY_CORRECTIONS[Val(r["adm1_code"])])
                  ELSE r["Country"]])

\* flood_df_subset.rename(columns={...}, inplace=True)
RenameFlood(fs) == RenameCols(fs, FloodRenames)

\* Mutant of ScaleDamages: damages left in thousand US$.
ScaleDamages_None(fs) == fs

\* flood_df_subset["damages"] = flood_df_subset["damages"] * 1000
ScaleDamages(fs) ==
    SetCol(fs, "damages",
           [i \in DOMAIN fs.rows |->
               LET r == fs.rows[i]
               IN IF r["damages"] = NA THEN NA ELSE Some(Val(r["damages"]) * 1000)])

\* flood_df_subset["year"] = flood_df_subset["mon-yr"].str[-4:].astype(int)
AddYear(fs) ==
    SetCol(fs, "year",
           [i \in DOMAIN fs.rows |-> Some(ParseInt(Last4(Val(fs.rows[i]["mon-yr"]))))])

\* countries_gdf.rename(columns={"ISO_A3": "ISO"}); countries_gdf[["ISO", "geometry"]]
PrepCountries(c) == SelectCols(RenameCols(c, "ISO_A3" :> "ISO"), <<"ISO", "geometry">>)

\* m49_df[[...]].rename(columns={...})
PrepM49(m) ==
    RenameCols(SelectCols(m, <<"ISO-alpha3 Code", "Sub-region Name", "Region Name">>),
               "ISO-alpha3 Code" :> "ISO" @@ "Sub-region Name" :> "Subregion" @@
               "Region Name" :> "Region")

\* m49_df.merge(countries_subset, on="ISO", how="left"), then
\* [["Subregion", "geometry"]].dropna(subset=["geometry"]).dissolve(by="Subregion")
DissolveSubregions(m49, countries) ==
    Dissolve(DropNa(SelectCols(MergeLeft(m49, countries, "ISO"), <<"Subregion", "geometry">>),
                    "geometry"),
             "Subregion")

\* The aggregate of one level with its flood count.
LevelAgg(fs, key) ==
    MergeInner(GroupAgg(fs, key, metrics, agg_funcs, FlatNames(metrics, agg_funcs)),
               GroupSize(fs, key), key)

\* Mutant of FallbackName: only a missing name is replaced, the sentinel is kept.
FallbackName_MissingOnly(df) ==
    SetCol(df, "Admin1 (States/Provinces)",
           [i \in DOMAIN df.rows |->
               LET r == df.rows[i]
               IN IF r["Admin1 (States/Provinces)"] = NA
                  THEN Some("Unknown Name (code: " \o ToString(Val(r["adm1_code"])) \o ")")
                  ELSE r["Admin1 (States/Provinces)"]])

\* The replacement of a missing or sentinel admin1 name.
FallbackName(df) ==
    SetCol(df, "Admin1 (States/Provinces)",
           [i \in DOMAIN df.rows |->
               LET r == df.rows[i]
               IN IF \/ r["Admin1 (States/Provinces)"] = NA
                     \/ r["Admin1 (States/Provinces)"] = Some(NameSentinel)
                  THEN Some("Unknown Name (code: " \o ToString(Val(r["adm1_code"])) \o ")")
                  ELSE r["Admin1 (States/Provinces)"]])

\* admin1_agg, before the geometry join.
Admin1Agg(fs) ==
    LET admin1_names ==
            DropDuplicates(SelectCols(fs, <<"adm1_code", "Admin1 (States/Provinces)", "Country">>),
                           <<"adm1_code">>)
    IN FallbackName(MergeLeft(LevelAgg(fs, "adm1_code"), admin1_names, "adm1_code"))

\* Mutant of Admin1Final: how="right", every aggregated region is kept.
Admin1Final_KeepAll(gaul, fs) == MergeLeft(Admin1Agg(fs), gaul, "adm1_code")

\* gaul_l1.merge(admin1_agg, on="adm1_code", how="inner")
Admin1Final(gaul, fs) == MergeInner(gaul, Admin1Agg(fs), "adm1_code")

\* country_agg, before the geometry join.
CountryAgg(fs) ==
    LET country_names == DropDuplicates(SelectCols(fs, <<"ISO", "Country">>), <<"ISO", "Country">>)
    IN MergeLeft(LevelAgg(fs, "ISO"), country_names, "ISO")

\* countries_subset.merge(country_agg, on="ISO", how="inner")
CountryFinal(countries, fs) == MergeInner(countries, CountryAgg(fs), "ISO")

\* subregion_agg, before the geometry join.
SubregionAgg(fs) == LevelAgg(fs, "UN Subregion")

\* Mutant of SubregionFinal: every aggregated subregion is kept.
SubregionFinal_KeepAll(subgeo, fs) ==
    MergeLeft(SubregionAgg(fs), RenameCols(subgeo, "Subregion" :> "UN Subregion"), "UN Subregion")

\* m49_subregion_gdf.reset_index() renamed and merged with subregion_agg (inner).
SubregionFinal(subgeo, fs) ==
    MergeInner(RenameCols(subgeo, "Subregion" :> "UN Subregion"), SubregionAgg(fs), "UN Subregion")

\* Mutant of AnnualGlobal: the yearly mean in place of the yearly sum.
AnnualGlobal_Mean(fs) ==
    MergeInner(GroupAgg(fs, "year", metrics, <<"mean">>, metrics), GroupSize(fs, "year"), "year")

\* flood_df_subset.groupby("year")[metrics].sum() merged with the yearly count.
AnnualGlobal(fs) == MergeInner(GroupSum(fs, "year", metrics), GroupSize(fs, "year"), "year")

(***************************************************************************)
(* The input files                                                         *)
(***************************************************************************)
\* GAUL level 1 boundaries.  Code 2720 has two rows (one per country it is
\* filed under); code 30 has no boundary.
GaulFile ==
    LET row(code, adm0, g) ==
            [c \in {"ADM1_CODE", "ADM0_NAME", "geometry"} |->
                CASE c = "ADM1_CODE" -> Some(code)
                  [] c = "ADM0_NAME" -> Some(adm0)
                  [] c = "geometry" -> Some(g)]
    IN Frame(<<"ADM1_CODE", "ADM0_NAME", "geometry">>,
             <<row(20, "Portugal", "gaul_20"), row(10, "Spain", "gaul_10"),
               row(2720, "Spain", "gaul_2720_a"), row(2720, "Portugal", "gaul_2720_b"),
               row(40, "France", "gaul_40"), row(50, "Spain", "gaul_50"),
               row(60, "Portugal", "gaul_60")>>)

\* Natural Earth countries: no polygon for FRA or XKX.
CountriesFile ==
    LET row(iso, admin, g) ==
            [c \in {"ISO_A3", "ADMIN", "geometry"} |->
                CASE c = "ISO_A3" -> Some(iso)
                  [] c = "ADMIN" -> Some(admin)
                  [] c = "geometry" -> Some(g)]
    IN Frame(<<"ISO_A3", "ADMIN", "geometry">>,
             <<row("PRT", "Portugal", "ne_PRT"), row("ESP", "Spain", "ne_ESP"),
               row("ITA", "Italy", "ne_ITA"), row("ATA", "Antarctica", "ne_ATA")>>)

\* UN M49 table: Antarctica has no sub-region, XKX is not listed.
M49File ==
    LET row(iso, sub, reg, name) ==
            [c \in {"Country or Area", "ISO-alpha3 Code", "Sub-region Name", "Region Name"} |->
                CASE c = "Country or Area" -> Some(name)
                  [] c = "ISO-alpha3 Code" -> Some(iso)
                  [] c = "Sub-region Name" -> sub
                  [] c = "Region Name" -> reg]
    IN Frame(<<"Country or Area", "ISO-alpha3 Code", "Sub-region Name", "Region Name">>,
             <<row("ATA", NA, NA, "Antarctica"),
               row("FRA", Some("Western Europe"), Some("Europe"), "France"),
               row("ITA", Some("Southern Europe"), Some("Europe"), "Italy"),
               row("PRT", Some("Southern Europe"), Some("Europe"), "Portugal"),
               row("ESP", Some("Southern Europe"), Some("Europe"), "Spain")>>)

LandFile ==
    Frame(<<"featurecla", "geometry">>,
          <<[featurecla |-> Some("Land"), geometry |-> Some("land_0")],
            [featurecla |-> Some("Land"), geometry |-> Some("land_1")]>>)

\* A mon-yr string as its characters.
MonYr(m1, m2, y3, y4) == Some(<<m1, m2, "-", "2", "0", y3, y4>>)

\* One row of the flood CSV.  v lists the 8 metric cells in the order damages,
\* damages (norm.), affected, affected (norm.), area, area (norm.), precip,
\* precip 75.
FloodRow(id, monyr, code, name, iso, country, subregion, v) ==
    [c \in Range(app_cols) |->
        CASE c = "id" -> Some(id)
          [] c = "mon-yr-adm1-id" -> Some(<<id, monyr, code>>)
          [] c = "mon-yr" -> monyr
          [] c = "adm1_code" -> code
          [] c = "adm1_name" -> name
          [] c = "ISO" -> iso
          [] c = "Country" -> country
          [] c = "Subregion" -> subregion
          [] c = "Total Damage, Adjusted ('000 US$) (population-weighted)" -> v[1]
          [] c = "Total Damage, Adjusted ('000 US$) (population-weighted, normalized by GDP)" -> v[2]
          [] c = "Total Affected (population-weighted)" -> v[3]
          [] c = "Total Affected (population-weighted, normalized)" -> v[4]
          [] c = "flooded_area" -> v[5]
          [] c = "flooded_area (normalized by adm1 area)" -> v[6]
          [] c = "event_precip_mean (mm/day)" -> v[7]
          [] c = "event_precip_75_quant_mean (mm/day)" -> v[8]]

\* The rows the flood CSV is drawn from.
FloodRows ==
    <<FloodRow(1, MonYr("0", "1", "2", "0"), Some(10), Some("Galicia"), Some("ESP"),
               Some("Spain"), Some("Southern Europe"),
               <<Some(100), Some(2), Some(40), Some(3), Some(7), Some(1), Some(5), Some(9)>>),
      FloodRow(2, MonYr("0", "6", "2", "1"), Some(10), NA, Some("ESP"),
               Some("Spain"), Some("Southern Europe"),
               <<Some(300), Some(6), Some(10), Some(1), Some(3), Some(2), Some(8), Some(12)>>),
      FloodRow(3, MonYr("0", "3", "2", "0"), Some(20), Some("Norte"), Some("PRT"),
               Some("Portugal"), Some("Southern Europe"),
               <<Some(50), Some(1), Some(25), Some(2), Some(9), Some(4), Some(6), Some(10)>>),
      FloodRow(4, NA, Some(10), Some("Galicia"), Some("ESP"),
               Some("Spain"), Some("Southern Europe"),
               <<Some(70), Some(3), Some(15), Some(2), Some(4), Some(1), Some(7), Some(11)>>),
      FloodRow(5, MonYr("0", "2", "2", "1"), Some(30), Some(NameSentinel), Some("XKX"),
               Some("Kosovo"), Some("Southern Europe"),
               <<Some(20), Some(4), NA, NA, Some(5), Some(3), Some(4), Some(6)>>),
      FloodRow(6, MonYr("0", "5", "2", "0"), Some(2720), NA, Some("PRT"),
               Some("Portugal"), Some("Southern Europe"),
               <<NA, NA, Some(12), Some(1), NA, NA, Some(2), Some(3)>>),
      FloodRow(7, MonYr("0", "7", "2", "1"), NA, NA, NA, NA, NA,
               <<Some(10), Some(1), Some(5), Some(1), Some(2), Some(1), Some(3), Some(4)>>),
      FloodRow(8, MonYr("0", "4", "2", "0"), Some(40), Some("Bretagne"), Some("FRA"),
               Some("France"), Some("Western Europe"),
               <<Some(80), Some(5), Some(30), Some(4), Some(6), Some(2), Some(9), Some(13)>>)>>

\* The largest number of rows of the flood CSV.
MaxRecords == 3

\* The flood CSVs considered: every sequence of 1..MaxRecords distinct rows
\* (mon-yr-adm1-id identifies a row).
FloodFiles ==
    {Frame(app_cols, [i \in DOMAIN ix |-> FloodRows[ix[i]]]) :
        ix \in UNION {{f \in [1..n -> DOMAIN FloodRows] :
                          \A i, j \in 1..n : i # j => f[i] # f[j]} : n \in 1..MaxRecords}}

\* The content of an output file before the first run, and of a file whose
\* write was interrupted.
OldFile(path) == Frame(<<"old">>, <<[old |-> Some(path)]>>)

PartialFile == Frame(<<"partial">>, <<>>)

(***************************************************************************)
(* preprocess_data.py: main() as a sequential program                      *)
(***************************************************************************)
VARIABLES
    input_csv,          \* the flood CSV on disk
    disk,               \* the output files: path -> frame
    prior,              \* the output files as they were when the current run started
    run,                \* 1 for the first run of the script, 2 for the re-run
    pc,                 \* the statement group main() is at, "done" or "failed"
    failed_at,          \* the statement group that raised, "" if none
    log,                \* the statement groups completed by the current run, in order
    gaul_l1, m49_df, countries_gdf, land_gdf, flood_df,
    flood_df_subset, countries_subset, m49_subregion_gdf,
    admin1_final, country_final, subregion_final, annual_global

pre_vars ==
    <<input_csv, disk, prior, run, pc, failed_at, log, gaul_l1, m49_df, countries_gdf,
      land_gdf, flood_df, flood_df_subset, countries_subset, m49_subregion_gdf,
      admin1_final, country_final, subregion_final, annual_global>>

VARIABLES
    view,               \* the "Select View" selectbox
    map_sel,            \* the widgets of map_fragment
    map_out,            \* what the last execution of map_fragment resolved and built
    bar_sel,            \* the widgets of bar_fragment
    bar_out,            \* what the last execution of bar_fragment resolved and built
    ts_sel,             \* the widget of timeseries_fragment
    ts_out,             \* what the last execution of timeseries_fragment resolved
    cache,              \* st.cache_data: loader key -> the table it holds, Unset if none
    reads               \* per output file: read by the app "never", "once" or "again"

ui_vars == <<view, map_sel, map_out, bar_sel, bar_out, ts_sel, ts_out, cache, reads>>

VARIABLES
    top_frame,          \* a table of regions and values
    top_num,            \* the number of rows asked for
    top_n               \* the selection, Unset before it is made

top_vars == <<top_frame, top_num, top_n>>

app_vars == <<ui_vars, top_vars>>

vars == <<pre_vars, app_vars>>

\* Mutant of Steps: every table is exported as soon as it is computed.
Steps_ExportAsComputed ==
    <<"read_gaul", "read_m49", "read_countries", "read_land", "read_flood",
      "export_land", "prep_gaul", "subset_flood", "correct_country", "rename_flood",
      "prep_countries", "prep_subregions",
      "agg_admin1", "export_admin1", "agg_country", "export_country",
      "agg_subregion", "export_subregion", "annual", "export_annual">>

\* Mutant of Steps: the flood CSV is read where it is first used.
Steps_FloodReadLate ==
    <<"read_gaul", "read_m49", "read_countries", "read_land",
      "prep_gaul", "read_flood", "subset_flood", "correct_country", "rename_flood",
      "prep_countries", "prep_subregions",
      "agg_admin1", "agg_country", "agg_subregion", "annual",
      "export_admin1", "export_country", "export_subregion", "export_annual",
      "export_land">>

\* The statement groups of main(), in program order.
Steps ==
    <<"read_gaul", "read_m49", "read_countries", "read_land", "read_flood",
      "prep_gaul", "subset_flood", "correct_country", "rename_flood",
      "prep_countries", "prep_subregions",
      "agg_admin1", "agg_country", "agg_subregion", "annual",
      "export_admin1", "export_country", "export_subregion", "export_annual",
      "export_land">>

ReadSteps == {"read_gaul", "read_m49", "read_countries", "read_land", "read_flood"}

ExportSteps ==
    {"export_admin1", "export_country", "export_subregion", "export_annual", "export_land"}

\* The file an export step writes.
ExportPath ==
    "export_admin1" :> ADMIN1_AGGREGATED_FILEPATH @@
    "export_country" :> COUNTRY_AGGREGATED_FILEPATH @@
    "export_subregion" :> SUBREGION_AGGREGATED_FILEPATH @@
    "export_annual" :> ANNUAL_GLOBAL_FILEPATH @@
    "export_land" :> LAND_OUTLINE_FILEPATH

NextPc(p) ==
    LET i == IndexOf(Steps, p) IN IF i = Len(Steps) THEN "done" ELSE Steps[i + 1]

\* The step at pc completes.
Advance == /\ pc' = NextPc(pc)
           /\ log' = Append(log, pc)
           /\ UNCHANGED <<input_csv, prior, run, failed_at>>
           /\ UNCHANGED app_vars

InitLocals ==
    /\ gaul_l1 = Unset /\ m49_df = Unset /\ countries_gdf = Unset /\ land_gdf = Unset
    /\ flood_df = Unset /\ flood_df_subset = Unset /\ countries_subset = Unset
    /\ m49_subregion_gdf = Unset /\ admin1_final = Unset /\ country_final = Unset
    /\ subregion_final = Unset /\ annual_global = Unset

InitPre ==
    /\ input_csv \in FloodFiles
    /\ disk = [f \in OutputFiles |-> OldFile(f)]
    /\ prior = disk
    /\ run = 1
    /\ pc = Steps[1]
    /\ failed_at = ""
    /\ log = <<>>
    /\ InitLocals

ReadGaul ==
    /\ pc = "read_gaul"
    /\ gaul_l1' = GaulFile
    /\ Advance
    /\ UNCHANGED <<disk, m49_df, countries_gdf, land_gdf, flood_df, flood_df_subset,
                   countries_subset, m49_subregion_gdf, admin1_final, country_final,
                   subregion_final, annual_global>>

ReadM49 ==
    /\ pc = "read_m49"
    /\ m49_df' = M49File
    /\ Advance
    /\ UNCHANGED <<disk, gaul_l1, countries_gdf, land_gdf, flood_df, flood_df_subset,
                   countries_subset, m49_subregion_gdf, admin1_final, country_final,
                   subregion_final, annual_global>>

ReadCountries ==
    /\ pc = "read_countries"
    /\ countries_gdf' = CountriesFile
    /\ Advance
    /\ UNCHANGED <<disk, gaul_l1, m49_df, land_gdf, flood_df, flood_df_subset,
                   countries_subset, m49_subregion_gdf, admin1_final, country_final,
                   subregion_final, annual_global>>

ReadLand ==
    /\ pc = "read_land"
    /\ land_gdf' = LandFile
    /\ Advance
    /\ UNCHANGED <<disk, gaul_l1, m49_df, countries_gdf, flood_df, flood_df_subset,
                   countries_subset, m49_subregion_gdf, admin1_final, country_final,
                   subregion_final, annual_global>>

ReadFlood ==
    /\ pc = "read_flood"
    /\ flood_df' = input_csv
    /\ Advance
    /\ UNCHANGED <<disk, gaul_l1, m49_df, countries_gdf, land_gdf, flood_df_subset,
                   countries_subset, m49_subregion_gdf, admin1_final, country_final,
                   subregion_final, annual_global>>

PreprocessGaul ==
    /\ pc = "prep_gaul"
    /\ gaul_l1' = PrepGaul(gaul_l1)
    /\ Advance
    /\ UNCHANGED <<disk, m49_df, countries_gdf, land_gdf, flood_df, flood_df_subset,
                   countries_subset, m49_subregion_gdf, admin1_final, country_final,
                   subregion_final, annual_global>>

\* Lines 101-123: the column subset and the drop of rows without mon-yr.
SubsetFloodData ==
    /\ pc = "subset_flood"
    /\ flood_df_subset' = DropMissingTime(SubsetFlood(flood_df))
    /\ Advance
    /\ UNCHANGED <<disk, gaul_l1, m49_df, countries_gdf, land_gdf, flood_df,
                   countries_subset, m49_subregion_gdf, admin1_final, country_final,
                   subregion_final, annual_global>>

\* Lines 125-131.
CorrectCountryAssignments ==
    /\ pc = "correct_country"
    /\ flood_df_subset' = CorrectCountries(flood_df_subset)
    /\ Advance
    /\ UNCHANGED <<disk, gaul_l1, m49_df, countries_gdf, land_gdf, flood_df,
                   countries_subset, m49_subregion_gdf, admin1_final, country_final,
                   subregion_final, annual_global>>

\* Lines 133-154: the renames, damages in US$, the year column.
RenameFloodColumns ==
    /\ pc = "rename_flood"
    /\ flood_df_subset' = AddYear(ScaleDamages(RenameFlood(flood_df_subset)))
    /\ Advance
    /\ UNCHANGED <<disk, gaul_l1, m49_df, countries_gdf, land_gdf, flood_df,
                   countries_subset, m49_subregion_gdf, admin1_final, country_final,
                   subregion_final, annual_global>>

PreprocessCountries ==
    /\ pc = "prep_countries"
    /\ countries_subset' = PrepCountries(countries_gdf)
    /\ Advance
    /\ UNCHANGED <<disk, gaul_l1, m49_df, countries_gdf, land_gdf, flood_df,
                   flood_df_subset, m49_subregion_gdf, admin1_final, country_final,
                   subregion_final, annual_global>>

\* Lines 162-184.
PreprocessSubregions ==
    /\ pc = "prep_subregions"
    /\ m49_df' = PrepM49(m49_df)
    /\ m49_subregion_gdf' = DissolveSubregions(PrepM49(m49_df), countries_subset)
    /\ Advance
    /\ UNCHANGED <<disk, gaul_l1, countries_gdf, land_gdf, flood_df, flood_df_subset,
                   countries_subset, admin1_final, country_final, subregion_final,
                   annual_global>>

AggregateAdmin1 ==
    /\ pc = "agg_admin1"
    /\ admin1_final' = Admin1Final(gaul_l1, flood_df_subset)
    /\ Advance
    /\ UNCHANGED <<disk, gaul_l1, m49_df, countries_gdf, land_gdf, flood_df,
                   flood_df_subset, countries_subset, m49_subregion_gdf, country_final,
                   subregion_final, annual_global>>

AggregateCountry ==
    /\ pc = "agg_country"
    /\ country_final' = CountryFinal(countries_subset, flood_df_subset)
    /\ Advance
    /\ UNCHANGED <<disk, gaul_l1, m49_df, countries_gdf, land_gdf, flood_df,
                   flood_df_subset, countries_subset, m49_subregion_gdf, admin1_final,
                   subregion_final, annual_global>>

AggregateSubregion ==
    /\ pc = "agg_subregion"
    /\ subregion_final' = SubregionFinal(m49_subregion_gdf, flood_df_subset)
    /\ Advance
    /\ UNCHANGED <<disk, gaul_l1, m49_df, countries_gdf, land_gdf, flood_df,
                   flood_df_subset, countries_subset, m49_subregion_gdf, admin1_final,
                   country_final, annual_global>>

AnnualTotals ==
    /\ pc = "annual"
    /\ annual_global' = AnnualGlobal(flood_df_subset)
    /\ Advance
    /\ UNCHANGED <<disk, gaul_l1, m49_df, countries_gdf, land_gdf, flood_df,
                   flood_df_subset, countries_subset, m49_subregion_gdf, admin1_final,
                   country_final, subregion_final>>

\* The frame an export step writes.
ExportFrame(step) ==
    CASE step = "export_admin1" -> admin1_final
      [] step = "export_country" -> country_final
      [] step = "export_subregion" -> subregion_final
      [] step = "export_annual" -> annual_global
      [] step = "export_land" -> land_gdf

\* Mutant of ToParquet: the rows are appended to a file of the same columns.
ToParquet_Append(files, path, frame) ==
    [files EXCEPT ![path] = IF @.columns = frame.columns
                            THEN Frame(frame.columns, @.rows \o frame.rows)
                            ELSE frame]

\* frame.to_parquet(path, index=False): the file is replaced by the frame.
ToParquet(files, path, frame) == [files EXCEPT ![path] = frame]

UnchangedLocals ==
    UNCHANGED <<gaul_l1, m49_df, countries_gdf, land_gdf, flood_df, flood_df_subset,
                countries_subset, m49_subregion_gdf, admin1_final, country_final,
                subregion_final, annual_global>>

Export(step) ==
    /\ pc = step
    /\ disk' = ToParquet(disk, ExportPath[step], ExportFrame(step))
    /\ Advance
    /\ UnchangedLocals

ExportAdmin1 == Export("export_admin1")

ExportCountry == Export("export_country")

ExportSubregion == Export("export_subregion")

ExportAnnual == Export("export_annual")

ExportLand == Export("export_land")

\* The statement group at pc raises (a missing or unreadable input, a full or
\* read-only output directory, an interrupt): nothing catches it, main() ends.
\* A write that raises leaves its file as it was or partly written.
Abort ==
    /\ pc \in Range(Steps)
    /\ pc' = "failed"
    /\ failed_at' = pc
    /\ \/ disk' = disk
       \/ /\ pc \in ExportSteps
          /\ disk' = ToParquet(disk, ExportPath[pc], PartialFile)
    /\ UNCHANGED <<input_csv, prior, run, log>>
    /\ UnchangedLocals
    /\ UNCHANGED app_vars

\* The script is run again on the same input files after a complete run.
Rerun ==
    /\ pc = "done"
    /\ run = 1
    /\ run' = 2
    /\ prior' = disk
    /\ pc' = Steps[1]
    /\ log' = <<>>
    /\ gaul_l1' = Unset /\ m49_df' = Unset /\ countries_gdf' = Unset /\ land_gdf' = Unset
    /\ flood_df' = Unset /\ flood_df_subset' = Unset /\ countries_subset' = Unset
    /\ m49_subregion_gdf' = Unset /\ admin1_final' = Unset /\ country_final' = Unset
    /\ subregion_final' = Unset /\ annual_global' = Unset
    /\ UNCHANGED <<input_csv, disk, failed_at>>
    /\ UNCHANGED app_vars

NextPre ==
    \/ ReadGaul \/ ReadM49 \/ ReadCountries \/ ReadLand \/ ReadFlood
    \/ PreprocessGaul \/ SubsetFloodData \/ CorrectCountryAssignments
    \/ RenameFloodColumns \/ PreprocessCountries \/ PreprocessSubregions
    \/ AggregateAdmin1 \/ AggregateCountry \/ AggregateSubregion \/ AnnualTotals
    \/ ExportAdmin1 \/ ExportCountry \/ ExportSubregion \/ ExportAnnual \/ ExportLand
    \/ Abort \/ Rerun

\* The output files after a complete run on the flood CSV csv.
PipelineOutput(csv) ==
    LET fs == AddYear(ScaleDamages(RenameFlood(CorrectCountries(
                  DropMissingTime(SubsetFlood(csv))))))
        countries == PrepCountries(CountriesFile)
    IN ADMIN1_AGGREGATED_FILEPATH :> Admin1Final(PrepGaul(GaulFile), fs) @@
       COUNTRY_AGGREGATED_FILEPATH :> CountryFinal(countries, fs) @@
       SUBREGION_AGGREGATED_FILEPATH :>
           SubregionFinal(DissolveSubregions(PrepM49(M49File), countries), fs) @@
       ANNUAL_GLOBAL_FILEPATH :> AnnualGlobal(fs) @@
       LAND_OUTLINE_FILEPATH :> LandFile

(***************************************************************************)
(* app.py: chart parameter resolution                                      *)
(***************************************************************************)
Views == <<"Global Annual Trends", "Map View", "Top Regions", "Methods", "About">>

Variables ==
    <<"Economic Damages", "Population Affected", "Flooded Area", "Flood Count",
      "Avg Precipitation (Flood)", "Avg 75th Percentile Precipitation (Flood)">>

\* The variables of the selectbox of timeseries_fragment.
TsVariables == <<"Economic Damages", "Population Affected", "Flooded Area", "Flood Count">>

NormalizeOptions == <<TRUE, FALSE>>

Regions == <<"Admin1 (States/Provinces)", "Country", "UN Subregion">>

Statistics == <<"Mean", "Median", "Max", "Sum">>

\* The files the dashboard reads.
ADMIN1_FILEPATH == ADMIN1_AGGREGATED_FILEPATH

COUNTRY_FILEPATH == COUNTRY_AGGREGATED_FILEPATH

SUBREGION_FILEPATH == SUBREGION_AGGREGATED_FILEPATH

\* var_map: variable -> (base_col, norm_col), None as NA.
var_map ==
    "Economic Damages" :> <<Some("damages"), Some("damages_norm")>> @@
    "Population Affected" :> <<Some("pop_affected"), Some("pop_affected_norm")>> @@
    "Flooded Area" :> <<Some("flooded_area"), Some("flooded_area_norm")>> @@
    "Flood Count" :> <<NA, NA>> @@
    "Avg Precipitation (Flood)" :> <<Some("avg_precip"), NA>> @@
    "Avg 75th Percentile Precipitation (Flood)" :> <<Some("extreme_precip_75"), NA>>

region_id_map ==
    "Admin1 (States/Provinces)" :> "adm1_code" @@
    "Country" :> "ISO" @@
    "UN Subregion" :> "UN Subregion"

\* str.lower() on the statistic names.
Lower(st) ==
    CASE st = "Mean" -> "mean"
      [] st = "Median" -> "median"
      [] st = "Max" -> "max"
      [] st = "Sum" -> "sum"

\* An f-string field: None prints as "None".
Fmt(c) == IF c = NA THEN "None" ELSE Val(c)

\* Mutant of ValueCol: norm_col is used whenever normalize is set.
ValueCol_NoVariantCheck(variable, agg_metric, normalize) ==
    IF variable = "Flood Count" THEN "flood_count"
    ELSE LET base_col == var_map[variable][1]
             norm_col == var_map[variable][2]
             base_name == IF normalize THEN norm_col ELSE base_col
         IN Fmt(base_name) \o "_" \o Lower(agg_metric)

\* "Build column name" of map_fragment.
ValueCol(variable, agg_metric, normalize) ==
    IF variable = "Flood Count" THEN "flood_count"
    ELSE LET base_col == var_map[variable][1]
             norm_col == var_map[variable][2]
             base_name == IF normalize /\ norm_col # NA THEN norm_col ELSE base_col
         IN Fmt(base_name) \o "_" \o Lower(agg_metric)

\* Mutant of BarValueCol: norm_col is used whenever normalize is set.
BarValueCol_NoVariantCheck(variable, agg_metric, normalize) ==
    IF variable = "Flood Count" THEN "flood_count"
    ELSE LET base_col == var_map[variable][1]
             norm_col == var_map[variable][2]
             base_name == IF normalize THEN norm_col ELSE base_col
         IN Fmt(base_name) \o "_" \o Lower(agg_metric)

\* "Build column name" of bar_fragment, a second copy of the statements.
BarValueCol(variable, agg_metric, normalize) ==
    IF variable = "Flood Count" THEN "flood_count"
    ELSE LET base_col == var_map[variable][1]
             norm_col == var_map[variable][2]
             base_name == IF normalize /\ norm_col # NA THEN norm_col ELSE base_col
         IN Fmt(base_name) \o "_" \o Lower(agg_metric)

precip_vars == {"Avg Precipitation (Flood)", "Avg 75th Percentile Precipitation (Flood)"}

\* norm_labels of generate_title, without the statistic prefix.
norm_labels ==
    "Economic Damages" :> "Economic Damages (% of GDP)" @@
    "Population Affected" :> "Population Affected (% of Total)" @@
    "Flooded Area" :> "Flooded Area (% of Total Area)"

\* Mutant of generate_title: the normalized labels are never used.
generate_title_IgnoreNormalize(variable, agg_metric, normalize) ==
    IF variable = "Flood Count" THEN "Flood Event Count" ELSE agg_metric \o " " \o variable

generate_title(variable, agg_metric, normalize) ==
    IF variable = "Flood Count" THEN "Flood Event Count"
    ELSE IF variable \in precip_vars THEN agg_metric \o " " \o variable
    ELSE IF normalize
         THEN (IF variable \in DOMAIN norm_labels
               THEN agg_metric \o " " \o norm_labels[variable]
               ELSE agg_metric \o " " \o variable)
    ELSE agg_metric \o " " \o variable

(***************************************************************************)
(* app.py: the Top Regions selection                                       *)
(***************************************************************************)
\* a < b for two rationals in lowest terms.
RatLess(a, b) == a[1] * b[2] < b[1] * a[2]

\* The row numbers S in decreasing order of vals, equal values in row order.
RECURSIVE SortDesc(_, _)
SortDesc(S, vals) ==
    IF S = {} THEN <<>>
    ELSE LET m == CHOOSE i \in S :
                     \A j \in S \ {i} : RatLess(vals[j], vals[i]) \/ (vals[j] = vals[i] /\ i < j)
         IN <<m>> \o SortDesc(S \ {m}, vals)

\* The row numbers S in increasing order of vals, equal values in row order.
RECURSIVE SortAsc(_, _)
SortAsc(S, vals) ==
    IF S = {} THEN <<>>
    ELSE LET m == CHOOSE i \in S :
                     \A j \in S \ {i} : RatLess(vals[i], vals[j]) \/ (vals[j] = vals[i] /\ i < j)
         IN <<m>> \o SortAsc(S \ {m}, vals)

\* Mutant of nlargest: the n smallest values, in increasing order.
nlargest_Smallest(df, n, col) ==
    LET vals == [i \in DOMAIN df.rows |-> df.rows[i][col]]
        valued == {i \in DOMAIN df.rows : vals[i] # NA}
        missing == DOMAIN df.rows \ valued
        order == SortAsc(valued, vals) \o SortSet(missing, [i \in missing |-> i])
        k == IF n < Len(order) THEN n ELSE Len(order)
    IN IF n <= 0 THEN Frame(df.columns, <<>>)
       ELSE Frame(df.columns, [j \in 1..k |-> df.rows[order[j]]])

\* df.nlargest(n, col): the rows in decreasing order of col, rows without a
\* value last (in row order), cut to the first n.
nlargest(df, n, col) ==
    LET vals == [i \in DOMAIN df.rows |-> df.rows[i][col]]
        valued == {i \in DOMAIN df.rows : vals[i] # NA}
        missing == DOMAIN df.rows \ valued
        order == SortDesc(valued, vals) \o SortSet(missing, [i \in missing |-> i])
        k == IF n < Len(order) THEN n ELSE Len(order)
    IN IF n <= 0 THEN Frame(df.columns, <<>>)
       ELSE Frame(df.columns, [j \in 1..k |-> df.rows[order[j]]])

\* The slider "Number of regions".
SliderMin == 5

SliderDefault == 15

\* Mutant of max_regions: the same maximum at every level.
max_regions_Same(region) == IF region = "UN Subregion" THEN 30 ELSE 30

max_regions(region) == IF region = "UN Subregion" THEN 15 ELSE 30

\* The slider after the level changes from old to new: a slider with another
\* max_value is another widget, rendered at its default value.
SliderAfter(old, new, num) ==
    IF max_regions(new) = max_regions(old) THEN num ELSE SliderDefault

\* Series.astype(str) on a name column read from parquet.
AsStr(c) == IF c = NA THEN "None" ELSE Val(c)

\* Mutant of DisplayNames: an admin1 region is labelled by its own name alone.
DisplayNames_Admin1NameOnly(region, geo_data) ==
    IF region = "Admin1 (States/Provinces)"
    THEN IF /\ "Admin1 (States/Provinces)" \in Range(geo_data.columns)
            /\ "Country" \in Range(geo_data.columns)
         THEN [display_col |-> "Admin1 (States/Provinces)", frame |-> geo_data]
         ELSE [display_col |-> region_id_map[region], frame |-> geo_data]
    ELSE IF region = "Country"
    THEN [display_col |-> IF "Country" \in Range(geo_data.columns) THEN "Country"
                          ELSE region_id_map[region],
          frame |-> geo_data]
    ELSE [display_col |-> IF "UN Subregion" \in Range(geo_data.columns) THEN "UN Subregion"
                          ELSE region_id_map[region],
          frame |-> geo_data]

\* "Determine display names" of bar_fragment: the label column and the table
\* it is taken from (a copy of geo_data when a column is added).
DisplayNames(region, geo_data) ==
    IF region = "Admin1 (States/Provinces)"
    THEN IF /\ "Admin1 (States/Provinces)" \in Range(geo_data.columns)
            /\ "Country" \in Range(geo_data.columns)
         THEN LET geo_data_copy == geo_data
              IN [display_col |-> "Display Name",
                  frame |-> SetCol(geo_data_copy, "Display Name",
                                   [i \in DOMAIN geo_data_copy.rows |->
                                       LET r == geo_data_copy.rows[i]
                                       IN Some(AsStr(r["Admin1 (States/Provinces)"]) \o ", "
                                               \o AsStr(r["Country"]))])]
         ELSE [display_col |-> region_id_map[region], frame |-> geo_data]
    ELSE IF region = "Country"
    THEN [display_col |-> IF "Country" \in Range(geo_data.columns) THEN "Country"
                          ELSE region_id_map[region],
          frame |-> geo_data]
    ELSE [display_col |-> IF "UN Subregion" \in Range(geo_data.columns) THEN "UN Subregion"
                          ELSE region_id_map[region],
          frame |-> geo_data]

(***************************************************************************)
(* app.py: the fragments                                                   *)
(***************************************************************************)
\* A fragment that is not on the page has no widgets and no output.
NoSel == [variable |-> "", normalize |-> FALSE, region |-> "", agg_metric |-> ""]

NoBarSel ==
    [variable |-> "", normalize |-> FALSE, region |-> "", agg_metric |-> "", num_regions |-> 0]

NoTsSel == [variable |-> ""]

NoOut == [value_col |-> "", title |-> ""]

\* The widgets as first rendered (index=..., first option where none is given).
MapDefaults ==
    [variable |-> Variables[1], normalize |-> NormalizeOptions[1], region |-> Regions[2],
     agg_metric |-> Statistics[1]]

BarDefaults ==
    [variable |-> Variables[1], normalize |-> NormalizeOptions[1], region |-> Regions[1],
     agg_metric |-> Statistics[1], num_regions |-> SliderDefault]

TsDefaults == [variable |-> TsVariables[1]]

\* One execution of map_fragment on the widget state sel and the table the
\* loader returned.  error: plotly raises on a colour or location column the
\* table does not have; hover: the hover text is attached; geo_data: the
\* loader's table as the execution leaves it.
MapFragment(sel, geo_data) ==
    LET value_col == ValueCol(sel.variable, sel.agg_metric, sel.normalize)
        title == generate_title(sel.variable, sel.agg_metric, sel.normalize)
        location_col == region_id_map[sel.region]
        name_col == IF sel.region = "Admin1 (States/Provinces)" THEN "Admin1 (States/Provinces)"
                    ELSE IF sel.region = "Country" THEN "Country"
                    ELSE "UN Subregion"
        cols == Range(geo_data.columns)
        hover == name_col \in cols
        error == value_col \notin cols \/ (hover /\ location_col \notin cols)
    IN [value_col |-> value_col,
        title |-> title,
        chart_title |-> title \o " by " \o sel.region,
        name_col |-> name_col,
        hover |-> hover /\ ~error,
        error |-> error,
        geo_data |-> geo_data]

\* Mutant of BarFragment: the Display Name column is added to the loader's
\* table itself, not to a copy.
BarFragment_InPlace(sel, geo_data) ==
    LET value_col == BarValueCol(sel.variable, sel.agg_metric, sel.normalize)
        title == generate_title(sel.variable, sel.agg_metric, sel.normalize)
        d == DisplayNames(sel.region, geo_data)
        error == ~({d.display_col, value_col} \subseteq Range(d.frame.columns))
        picked == nlargest(SelectCols(d.frame, <<d.display_col, value_col>>),
                           sel.num_regions, value_col)
    IN [value_col |-> value_col,
        title |-> title,
        display_col |-> d.display_col,
        error |-> error,
        top_n |-> IF error THEN Unset
                  ELSE Frame(<<"Region", title>>,
                             [k \in DOMAIN picked.rows |->
                                 [c \in {"Region", title} |->
                                     IF c = "Region" THEN picked.rows[k][d.display_col]
                                     ELSE picked.rows[k][value_col]]]),
        geo_data |-> d.frame]

\* One execution of bar_fragment.  error: a column of the selection is not in
\* the table (KeyError); top_n: the table charted, Unset when none is.
BarFragment(sel, geo_data) ==
    LET value_col == BarValueCol(sel.variable, sel.agg_metric, sel.normalize)
        title == generate_title(sel.variable, sel.agg_metric, sel.normalize)
        d == DisplayNames(sel.region, geo_data)
        error == ~({d.display_col, value_col} \subseteq Range(d.frame.columns))
        picked == nlargest(SelectCols(d.frame, <<d.display_col, value_col>>),
                           sel.num_regions, value_col)
    IN [value_col |-> value_col,
        title |-> title,
        display_col |-> d.display_col,
        error |-> error,
        top_n |-> IF error THEN Unset
                  ELSE Frame(<<"Region", title>>,
                             [k \in DOMAIN picked.rows |->
                                 [c \in {"Region", title} |->
                                     IF c = "Region" THEN picked.rows[k][d.display_col]
                                     ELSE picked.rows[k][value_col]]]),
        geo_data |-> geo_data]

\* Mutant of TsFragment: the normalized column where the variable has one.
TsFragment_Normalized(sel, annual_data) ==
    LET ts_col == IF sel.variable = "Flood Count" THEN "flood_count"
                  ELSE Val(var_map[sel.variable][2])
    IN [ts_col |-> ts_col,
        ts_label |-> "Total " \o sel.variable \o " by Year",
        error |-> ~({"year", ts_col} \subseteq Range(annual_data.columns)),
        annual_data |-> annual_data]

\* One execution of timeseries_fragment: the raw column of the annual totals.
TsFragment(sel, annual_data) ==
    LET ts_col == IF sel.variable = "Flood Count" THEN "flood_count"
                  ELSE Val(var_map[sel.variable][1])
    IN [ts_col |-> ts_col,
        ts_label |-> "Total " \o sel.variable \o " by Year",
        error |-> ~({"year", ts_col} \subseteq Range(annual_data.columns)),
        annual_data |-> annual_data]

(***************************************************************************)
(* app.py: the cached loaders                                              *)
(***************************************************************************)
AppFiles ==
    {ADMIN1_FILEPATH, COUNTRY_FILEPATH, SUBREGION_FILEPATH, ANNUAL_GLOBAL_FILEPATH,
     LAND_OUTLINE_FILEPATH}

\* The keys of the cache: the argument of load_regional_data, and "annual"
\* for load_annual_data().
CacheKeys == Range(Regions) \cup {"annual"}

\* The file a loader key is read from.
LoaderFile(key) ==
    CASE key = "Admin1 (States/Provinces)" -> ADMIN1_FILEPATH
      [] key = "Country" -> COUNTRY_FILEPATH
      [] key = "annual" -> ANNUAL_GLOBAL_FILEPATH
      [] OTHER -> SUBREGION_FILEPATH

\* One more read of a file.
ReadAgain(n) == IF n = "never" THEN "once" ELSE "again"

\* A call of a loader under @st.cache_data with cache c and read counts rd:
\* the table returned, and the cache and the read counts after the call.
Load(c, rd, key) ==
    IF c[key] # Unset
    THEN [table |-> c[key], cache |-> c, reads |-> rd]
    ELSE [table |-> disk[LoaderFile(key)],
          cache |-> [c EXCEPT ![key] = disk[LoaderFile(key)]],
          reads |-> [rd EXCEPT ![LoaderFile(key)] = ReadAgain(@)]]

\* country_borders = gpd.read_parquet(COUNTRY_FILEPATH) of map_fragment, after
\* the loader call l.
CountryBorders(l) ==
    [table |-> disk[COUNTRY_FILEPATH],
     cache |-> l.cache,
     reads |-> [l.reads EXCEPT ![COUNTRY_FILEPATH] = ReadAgain(@)]]

NoCache == [k \in CacheKeys |-> Unset]

NoReads == [f \in AppFiles |-> "never"]

(***************************************************************************)
(* app.py: the dashboard as a state machine                                *)
(***************************************************************************)
\* The flood CSV behind the dashboard's files: the whole catalogue and two
\* more regions, so that the admin1 table has more rows than the slider's
\* minimum.
AppFloodRows ==
    FloodRows \o
    <<FloodRow(9, MonYr("0", "8", "2", "1"), Some(50), Some("Andalucia"), Some("ESP"),
               Some("Spain"), Some("Southern Europe"),
               <<Some(300), Some(2), Some(60), Some(5), Some(8), Some(3), Some(5), Some(7)>>),
      FloodRow(10, MonYr("0", "9", "2", "0"), Some(60), Some("Centro"), Some("PRT"),
               Some("Portugal"), Some("Southern Europe"),
               <<Some(40), Some(7), Some(20), Some(2), Some(1), Some(1), Some(10), Some(14)>>)>>

\* The columns of the normalized metrics.
NormCols ==
    {m \o "_" \o f : m \in {"damages_norm", "pop_affected_norm", "flooded_area_norm"},
                     f \in Range(agg_funcs)}

\* df.drop(columns=cols)
DropCols(df, cols) == SelectCols(df, SelectSeq(df.columns, LAMBDA c : c \notin cols))

\* The files the dashboard may find in DATA_DIR: those of a complete run of
\* the aggregator; files without the Country column; files of before the
\* display names and the normalized metrics were added.
AppDisks ==
    LET full == PipelineOutput(Frame(app_cols, AppFloodRows))
    IN {full,
        [full EXCEPT ![ADMIN1_FILEPATH] = DropCols(@, {"Country"}),
                     ![COUNTRY_FILEPATH] = DropCols(@, {"Country"})],
        [full EXCEPT ![ADMIN1_FILEPATH] =
                         DropCols(@, {"Admin1 (States/Provinces)", "Country"} \cup NormCols),
                     ![COUNTRY_FILEPATH] = DropCols(@, NormCols),
                     ![SUBREGION_FILEPATH] = DropCols(@, NormCols)]}

\* No selection is being made.
TopIdle == top_frame = Unset /\ top_num = 0 /\ top_n = Unset

\* The app is not running (the aggregator's specification).
AppIdle ==
    /\ view = Views[1]
    /\ map_sel = NoSel /\ map_out = NoOut
    /\ bar_sel = NoBarSel /\ bar_out = NoOut
    /\ ts_sel = NoTsSel /\ ts_out = NoOut
    /\ cache = NoCache /\ reads = NoReads
    /\ TopIdle

\* The aggregator has completed a run that left the files d.
PreDone(d) ==
    /\ input_csv = Frame(app_cols, AppFloodRows)
    /\ disk = d
    /\ prior = [f \in OutputFiles |-> OldFile(f)]
    /\ run = 1
    /\ pc = "done"
    /\ failed_at = ""
    /\ log = Steps
    /\ InitLocals

\* map_fragment executes on the widget state sel.
RunMap(sel) ==
    LET l == Load(cache, reads, sel.region)
        b == CountryBorders(l)
    IN /\ map_sel' = sel
       /\ map_out' = MapFragment(sel, l.table)
       /\ cache' = b.cache
       /\ reads' = b.reads

\* bar_fragment executes on the widget state sel.
RunBar(sel) ==
    LET l == Load(cache, reads, sel.region)
    IN /\ bar_sel' = sel
       /\ bar_out' = BarFragment(sel, l.table)
       /\ cache' = l.cache
       /\ reads' = l.reads

\* timeseries_fragment executes on the widget state sel.
RunTs(sel) ==
    LET l == Load(cache, reads, "annual")
    IN /\ ts_sel' = sel
       /\ ts_out' = TsFragment(sel, l.table)
       /\ cache' = l.cache
       /\ reads' = l.reads

\* The dashboard is opened on the files d: the script runs with the first
\* view selected, and timeseries_fragment executes.
InitApp ==
    /\ \E d \in AppDisks : PreDone(d)
    /\ view = Views[1]
    /\ map_sel = NoSel /\ map_out = NoOut
    /\ bar_sel = NoBarSel /\ bar_out = NoOut
    /\ LET l == Load(NoCache, NoReads, "annual")
       IN /\ ts_sel = TsDefaults
          /\ ts_out = TsFragment(TsDefaults, l.table)
          /\ cache = l.cache
          /\ reads = l.reads
    /\ TopIdle

\* The view selectbox changes: the script re-runs, the widgets of the fragment
\* now on the page are rendered anew and the fragment executes.
SelectView(v) ==
    /\ v # view
    /\ view' = v
    /\ IF v = "Map View"
       THEN /\ RunMap(MapDefaults)
            /\ bar_sel' = NoBarSel /\ bar_out' = NoOut /\ ts_sel' = NoTsSel /\ ts_out' = NoOut
       ELSE IF v = "Top Regions"
       THEN /\ RunBar(BarDefaults)
            /\ map_sel' = NoSel /\ map_out' = NoOut /\ ts_sel' = NoTsSel /\ ts_out' = NoOut
       ELSE IF v = "Global Annual Trends"
       THEN /\ RunTs(TsDefaults)
            /\ map_sel' = NoSel /\ map_out' = NoOut /\ bar_sel' = NoBarSel /\ bar_out' = NoOut
       ELSE /\ map_sel' = NoSel /\ map_out' = NoOut /\ bar_sel' = NoBarSel /\ bar_out' = NoOut
            /\ ts_sel' = NoTsSel /\ ts_out' = NoOut
            /\ UNCHANGED <<cache, reads>>
    /\ UNCHANGED <<pre_vars, top_vars>>

\* A widget of map_fragment changes: the fragment re-executes.
MapRerun(sel) ==
    /\ view = "Map View"
    /\ sel # map_sel
    /\ RunMap(sel)
    /\ UNCHANGED <<view, bar_sel, bar_out, ts_sel, ts_out>>
    /\ UNCHANGED <<pre_vars, top_vars>>

MapSetVariable == \E v \in Range(Variables) : MapRerun([map_sel EXCEPT !.variable = v])

MapSetNormalize == \E b \in Range(NormalizeOptions) : MapRerun([map_sel EXCEPT !.normalize = b])

MapSetRegion == \E r \in Range(Regions) : MapRerun([map_sel EXCEPT !.region = r])

MapSetStatistic == \E a \in Range(Statistics) : MapRerun([map_sel EXCEPT !.agg_metric = a])

\* A widget of bar_fragment changes: the fragment re-executes.
BarRerun(sel) ==
    /\ view = "Top Regions"
    /\ sel # bar_sel
    /\ RunBar(sel)
    /\ UNCHANGED <<view, map_sel, map_out, ts_sel, ts_out>>
    /\ UNCHANGED <<pre_vars, top_vars>>

BarSetVariable == \E v \in Range(Variables) : BarRerun([bar_sel EXCEPT !.variable = v])

BarSetNormalize == \E b \in Range(NormalizeOptions) : BarRerun([bar_sel EXCEPT !.normalize = b])

BarSetRegion ==
    \E r \in Range(Regions) :
        BarRerun([bar_sel EXCEPT !.region = r,
                                 !.num_regions = SliderAfter(bar_sel.region, r, @)])

BarSetStatistic == \E a \in Range(Statistics) : BarRerun([bar_sel EXCEPT !.agg_metric = a])

\* The slider positions tried: both minima and maxima, the default and two
\* positions next to them.
SliderStops == {5, 6, 15, 16, 30}

\* The slider moves to a position between min_value and max_value.
BarSetNumRegions ==
    \E n \in SliderStops :
        /\ SliderMin <= n /\ n <= max_regions(bar_sel.region)
        /\ BarRerun([bar_sel EXCEPT !.num_regions = n])

\* The widget of timeseries_fragment changes: the fragment re-executes.
TsSetVariable ==
    \E v \in Range(TsVariables) :
        /\ view = "Global Annual Trends"
        /\ v # ts_sel.variable
        /\ RunTs([ts_sel EXCEPT !.variable = v])
        /\ UNCHANGED <<view, map_sel, map_out, bar_sel, bar_out>>
        /\ UNCHANGED <<pre_vars, top_vars>>

ChangeView == \E v \in Range(Views) : SelectView(v)

NextApp ==
    \/ ChangeView
    \/ MapSetVariable \/ MapSetNormalize \/ MapSetRegion \/ MapSetStatistic
    \/ BarSetVariable \/ BarSetNormalize \/ BarSetRegion \/ BarSetStatistic
    \/ BarSetNumRegions
    \/ TsSetVariable

(***************************************************************************)
(* The Top Regions selection on its own                                    *)
(***************************************************************************)
\* The largest number of rows of the table.
MaxTopRows == 4

TopLabels == <<"A", "B", "C", "D", "E", "F">>

\* The values of a row: none, or one of three numbers.
TopValues == {NA, Rat(10, 1), Rat(30, 1), Rat(50, 1)}

\* The tables considered: every table of 0..MaxTopRows regions with these values.
TopFrames ==
    UNION {{Frame(<<"Region", "value">>,
                  [i \in 1..n |-> [Region |-> Some(TopLabels[i]), value |-> v[i]]]) :
               v \in [1..n -> TopValues]} : n \in 0..MaxTopRows}

InitTop ==
    /\ PreDone(PipelineOutput(Frame(app_cols, AppFloodRows)))
    /\ view = Views[1]
    /\ map_sel = NoSel /\ map_out = NoOut
    /\ bar_sel = NoBarSel /\ bar_out = NoOut
    /\ ts_sel = NoTsSel /\ ts_out = NoOut
    /\ cache = NoCache /\ reads = NoReads
    /\ top_frame \in TopFrames
    /\ top_num \in 1..MaxTopRows
    /\ top_n = Unset

\* top_n = table.nlargest(num_regions, value_col)
SelectTopN ==
    /\ top_n = Unset
    /\ top_n' = nlargest(top_frame, top_num, "value")
    /\ UNCHANGED <<top_frame, top_num>>
    /\ UNCHANGED <<pre_vars, ui_vars>>

NextTop == SelectTopN

(***************************************************************************)
(* data_preprocessing.py: the boundary preprocessing script                *)
(***************************************************************************)
GAUL_L1_EXPORT_FILEPATH == "./data/boundaries_preprocessed/GAUL_L1_2015.parquet"

UN_SUBREGIONS_EXPORT_FILEPATH == "./data/boundaries_preprocessed/UN_subregions.parquet"

BoundaryFiles == {GAUL_L1_EXPORT_FILEPATH, UN_SUBREGIONS_EXPORT_FILEPATH}

\* gaul_l1.rename(columns={"ADM1_CODE": "adm1_code"}); gaul_l1[["adm1_code", "geometry"]]
BoundaryGaul(g) ==
    SelectCols(RenameCols(g, "ADM1_CODE" :> "adm1_code"), <<"adm1_code", "geometry">>)

\* countries_gdf[countries_gdf["ADMIN"] != "Antarctica"]
DropAntarctica(c) ==
    Frame(c.columns, SelectSeq(c.rows, LAMBDA r : r["ADMIN"] # Some("Antarctica")))

\* The rename of ISO_A3, the drop of Antarctica, the left merge of the M49
\* table with countries_gdf[["ISO", "geometry"]], dropna and dissolve.
BoundarySubregions(m49, countries) ==
    DissolveSubregions(
        m49, SelectCols(DropAntarctica(RenameCols(countries, "ISO_A3" :> "ISO")),
                        <<"ISO", "geometry">>))

\* to_parquet(path, index=False) of a dissolved frame: its index, the key of
\* the dissolve, is not written.
WithoutIndex(df, key) ==
    SelectCols(df, SelectSeq(df.columns, LAMBDA c : c # key))

\* The statement groups of main() of data_preprocessing.py, in program order.
BoundarySteps ==
    <<"boundary_read_gaul", "boundary_read_m49", "boundary_read_countries",
      "boundary_prep_gaul", "boundary_prep_subregions",
      "boundary_export_gaul", "boundary_export_subregions">>

BoundaryNextPc(p) ==
    LET i == IndexOf(BoundarySteps, p)
    IN IF i = Len(BoundarySteps) THEN "boundary_done" ELSE BoundarySteps[i + 1]

\* The script starts next to a flood dataset, which it has no path to.
InitBoundaries ==
    /\ input_csv \in FloodFiles
    /\ disk = [f \in BoundaryFiles |-> Unset]
    /\ prior = disk
    /\ run = 1
    /\ pc = BoundarySteps[1]
    /\ failed_at = ""
    /\ log = <<>>
    /\ InitLocals
    /\ AppIdle

BoundaryAdvance ==
    /\ pc' = BoundaryNextPc(pc)
    /\ log' = Append(log, pc)
    /\ UNCHANGED <<input_csv, prior, run, failed_at, land_gdf, flood_df, flood_df_subset,
                   countries_subset, admin1_final, country_final, subregion_final,
                   annual_global>>
    /\ UNCHANGED app_vars

BoundaryReadGaul ==
    /\ pc = "boundary_read_gaul"
    /\ gaul_l1' = GaulFile
    /\ BoundaryAdvance
    /\ UNCHANGED <<disk, m49_df, countries_gdf, m49_subregion_gdf>>

BoundaryReadM49 ==
    /\ pc = "boundary_read_m49"
    /\ m49_df' = M49File
    /\ BoundaryAdvance
    /\ UNCHANGED <<disk, gaul_l1, countries_gdf, m49_subregion_gdf>>

BoundaryReadCountries ==
    /\ pc = "boundary_read_countries"
    /\ countries_gdf' = CountriesFile
    /\ BoundaryAdvance
    /\ UNCHANGED <<disk, gaul_l1, m49_df, m49_subregion_gdf>>

\* Lines 40-47.
BoundaryPrepGaul ==
    /\ pc = "boundary_prep_gaul"
    /\ gaul_l1' = BoundaryGaul(gaul_l1)
    /\ BoundaryAdvance
    /\ UNCHANGED <<disk, m49_df, countries_gdf, m49_subregion_gdf>>

\* Lines 49-77.
BoundaryPrepSubregions ==
    /\ pc = "boundary_prep_subregions"
    /\ m49_df' = PrepM49(m49_df)
    /\ countries_gdf' = DropAntarctica(RenameCols(countries_gdf, "ISO_A3" :> "ISO"))
    /\ m49_subregion_gdf' = BoundarySubregions(PrepM49(m49_df), countries_gdf)
    /\ BoundaryAdvance
    /\ UNCHANGED <<disk, gaul_l1>>

\* Lines 81-83.
BoundaryExportGaul ==
    /\ pc = "boundary_export_gaul"
    /\ disk' = ToParquet(disk, GAUL_L1_EXPORT_FILEPATH, gaul_l1)
    /\ BoundaryAdvance
    /\ UNCHANGED <<gaul_l1, m49_df, countries_gdf, m49_subregion_gdf>>

\* Lines 85-89.
BoundaryExportSubregions ==
    /\ pc = "boundary_export_subregions"
    /\ disk' = ToParquet(disk, UN_SUBREGIONS_EXPORT_FILEPATH,
                         WithoutIndex(m49_subregion_gdf, "Subregion"))
    /\ BoundaryAdvance
    /\ UNCHANGED <<gaul_l1, m49_df, countries_gdf, m49_subregion_gdf>>

NextBoundaries ==
    \/ BoundaryReadGaul \/ BoundaryReadM49 \/ BoundaryReadCountries
    \/ BoundaryPrepGaul \/ BoundaryPrepSubregions
    \/ BoundaryExportGaul \/ BoundaryExportSubregions

(***************************************************************************)
(* Specifications                                                          *)
(***************************************************************************)
Init == InitPre /\ AppIdle

Next == NextPre

\* The aggregator: every run of preprocess_data.py on every flood CSV.
Spec == Init /\ [][Next]_vars

\* The dashboard on the files of DATA_DIR.
SpecApp == InitApp /\ [][NextApp]_vars

\* The Top Regions selection on every small table.
SpecTop == InitTop /\ [][NextTop]_vars

\* The boundary script: every run of data_preprocessing.py, next to every
\* flood CSV.
SpecBoundaries == InitBoundaries /\ [][NextBoundaries]_vars

(***************************************************************************)
(* Vocabulary of the claims about the aggregator                           *)
(***************************************************************************)
Done == pc = "done"

\* The three region levels: the key column of the output, the column of the
\* flood CSV it comes from, and the output file.
Levels == {"adm1_code", "ISO", "UN Subregion"}

CsvKey(level) == IF level = "UN Subregion" THEN "Subregion" ELSE level

LevelFile(level) ==
    CASE level = "adm1_code" -> ADMIN1_AGGREGATED_FILEPATH
      [] level = "ISO" -> COUNTRY_AGGREGATED_FILEPATH
      [] level = "UN Subregion" -> SUBREGION_AGGREGATED_FILEPATH

\* The column of the flood CSV that holds metric m.
CsvMetric(m) == CHOOSE c \in Range(app_cols) : NewName(FloodRenames, c) = m

\* The event records (rows of the flood CSV) with region key k at a level:
\* all of them, and those with a mon-yr.
Events(level, k) == SelectSeq(input_csv.rows, LAMBDA r : r[CsvKey(level)] = k)

TimedEvents(level, k) == SelectSeq(Events(level, k), LAMBDA r : r["mon-yr"] # NA)

TimedRecords == SelectSeq(input_csv.rows, LAMBDA r : r["mon-yr"] # NA)

\* The sum of CSV column c over the records that have a value for it.
RECURSIVE CsvSum(_, _)
CsvSum(recs, c) ==
    IF recs = <<>> THEN 0
    ELSE (IF Head(recs)[c] = NA THEN 0 ELSE Val(Head(recs)[c])) + CsvSum(Tail(recs), c)

\* US$ per unit of the damages column of the CSV (thousand US$).
UsdPerUnit(m) == IF m = "damages" THEN 1000 ELSE 1

OutRows(path) == Range(disk[path].rows)

\* C1 as stated: after a complete run, at every level, M_sum of every output
\* row equals the sum of the flood CSV's column of metric M over the records
\* with the row's region key and a mon-yr.
C1_SumOfInputValues ==
    Done =>
        \A level \in Levels : \A row \in OutRows(LevelFile(level)) : \A m \in Range(metrics) :
            row[m \o "_sum"] = Rat(CsvSum(TimedEvents(level, row[level]), CsvMetric(m)), 1)

\* C1 amended: the same with damages taken in US$ (1000 times the CSV's value
\* in thousand US$), a record without a value for M adding nothing.
C1_SumInUsd ==
    Done =>
        \A level \in Levels : \A row \in OutRows(LevelFile(level)) : \A m \in Range(metrics) :
            row[m \o "_sum"] =
                Rat(UsdPerUnit(m) * CsvSum(TimedEvents(level, row[level]), CsvMetric(m)), 1)

\* A complete run whose admin1 output has a row summing two records with
\* damages, while a third record of that region has no mon-yr.
C1_Witness ==
    /\ Done
    /\ \E row \in OutRows(ADMIN1_AGGREGATED_FILEPATH) :
          /\ Len(TimedEvents("adm1_code", row["adm1_code"])) = 2
          /\ Len(Events("adm1_code", row["adm1_code"])) = 3
          /\ row["damages_sum"] = Rat(400000, 1)
          /\ row["pop_affected_sum"] = Rat(50, 1)

\* C2 as stated: flood_count of every output row equals the number of event
\* records with the row's region key.
C2_CountOfAllRecords ==
    Done =>
        \A level \in Levels : \A row \in OutRows(LevelFile(level)) :
            row["flood_count"] = Rat(Len(Events(level, row[level])), 1)

\* C2 amended: flood_count of every output row equals the number of event
\* records with the row's region key and a non-missing mon-yr.
C2_CountOfTimedRecords ==
    Done =>
        \A level \in Levels : \A row \in OutRows(LevelFile(level)) :
            row["flood_count"] = Rat(Len(TimedEvents(level, row[level])), 1)

\* A complete run with a country row counting two records while a third
\* record of that country has no mon-yr.
C2_Witness ==
    /\ Done
    /\ \E row \in OutRows(COUNTRY_AGGREGATED_FILEPATH) :
          /\ row["flood_count"] = Rat(2, 1)
          /\ Len(Events("ISO", row["ISO"])) = 3
          /\ Len(TimedEvents("ISO", row["ISO"])) = 2

\* The scenario of C3: three records (adm1, year, damages).
C3_Scenario ==
    LET triple(r) == <<r["adm1_code"], IF r["mon-yr"] = NA THEN NA ELSE Last4(Val(r["mon-yr"])),
                       r[CsvMetric("damages")]>>
    IN /\ Len(input_csv.rows) = 3
       /\ {triple(input_csv.rows[i]) : i \in DOMAIN input_csv.rows} =
              {<<Some(10), <<"2", "0", "2", "0">>, Some(100)>>,
               <<Some(10), <<"2", "0", "2", "1">>, Some(300)>>,
               <<Some(20), <<"2", "0", "2", "0">>, Some(50)>>}

\* The exported admin1 damages sums and annual damages totals, as sets of pairs.
Admin1DamagesSum ==
    {<<Val(row["adm1_code"]), row["damages_sum"]>> : row \in OutRows(ADMIN1_AGGREGATED_FILEPATH)}

AnnualDamages ==
    {<<Val(row["year"]), row["damages"]>> : row \in OutRows(ANNUAL_GLOBAL_FILEPATH)}

\* C3 as stated: on the scenario the admin1 damages sums are {10: 400, 20: 50}
\* and the annual damages totals {2020: 150, 2021: 300}.
C3_ScenarioAsStated ==
    (Done /\ C3_Scenario) =>
        /\ Admin1DamagesSum = {<<10, Rat(400, 1)>>, <<20, Rat(50, 1)>>}
        /\ AnnualDamages = {<<2020, Rat(150, 1)>>, <<2021, Rat(300, 1)>>}

\* C3 amended: on the scenario, damages being given in thousand US$ as in the
\* flood CSV, the admin1 damages sums are {10: 400000, 20: 50000} and the
\* annual damages totals {2020: 150000, 2021: 300000} (US$).
C3_ScenarioInUsd ==
    (Done /\ C3_Scenario) =>
        /\ Admin1DamagesSum = {<<10, Rat(400000, 1)>>, <<20, Rat(50000, 1)>>}
        /\ AnnualDamages = {<<2020, Rat(150000, 1)>>, <<2021, Rat(300000, 1)>>}

\* A complete run on the scenario, the 2021 record first.
C3_Witness ==
    /\ Done
    /\ C3_Scenario
    /\ input_csv.rows[1]["mon-yr"] = MonYr("0", "6", "2", "1")
    /\ Cardinality(OutRows(ANNUAL_GLOBAL_FILEPATH)) = 2

\* The region keys the geometry sources have, per level.
GeometryKeys(level) ==
    CASE level = "adm1_code" -> {GaulFile.rows[i]["ADM1_CODE"] : i \in DOMAIN GaulFile.rows}
      [] level = "ISO" -> {CountriesFile.rows[i]["ISO_A3"] : i \in DOMAIN CountriesFile.rows}
      [] level = "UN Subregion" ->
             {m49_subregion_gdf.rows[i]["Subregion"] : i \in DOMAIN m49_subregion_gdf.rows}

\* C4: after a complete run, an admin1 code or ISO code of the event records
\* without a row in its geometry table is the key of no row of the admin1 or
\* country output, and when the UN subregion of such a record (one with a
\* mon-yr) has geometry, the subregion output has one row for it whose
\* flood_count counts every record of the subregion, these included.
C4_InnerJoinKeepsSubregionCount ==
    Done =>
        \A level \in {"adm1_code", "ISO"} : \A i \in DOMAIN input_csv.rows :
            LET r == input_csv.rows[i]
                s == r["Subregion"]
            IN (r[level] # NA /\ r[level] \notin GeometryKeys(level)) =>
                  /\ \A row \in OutRows(LevelFile(level)) : row[level] # r[level]
                  /\ (r["mon-yr"] # NA /\ s \in GeometryKeys("UN Subregion")) =>
                        /\ Cardinality({j \in DOMAIN disk[SUBREGION_AGGREGATED_FILEPATH].rows :
                               disk[SUBREGION_AGGREGATED_FILEPATH].rows[j]["UN Subregion"] = s}) = 1
                        /\ \A row \in OutRows(SUBREGION_AGGREGATED_FILEPATH) :
                               row["UN Subregion"] = s =>
                                   row["flood_count"] =
                                       Rat(Len(TimedEvents("UN Subregion", s)), 1)

\* A complete run with a record of admin1 code 30 and country XKX (neither has
\* geometry) counted with another record in Southern Europe, which has.
C4_Witness ==
    /\ Done
    /\ \E i \in DOMAIN input_csv.rows :
          /\ input_csv.rows[i]["adm1_code"] = Some(30)
          /\ input_csv.rows[i]["ISO"] = Some("XKX")
    /\ Some(30) \notin GeometryKeys("adm1_code")
    /\ Some("XKX") \notin GeometryKeys("ISO")
    /\ \E row \in OutRows(SUBREGION_AGGREGATED_FILEPATH) :
          /\ row["UN Subregion"] = Some("Southern Europe")
          /\ row["flood_count"] = Rat(2, 1)
    /\ OutRows(ADMIN1_AGGREGATED_FILEPATH) # {}

\* The rows of a level's aggregate before the geometry join, and of the annual
\* totals, that the record r (a row of flood_df_subset) is grouped into.
GroupsOf(agg, key, r) == {i \in DOMAIN agg.rows : agg.rows[i][key] = r[key]}

LevelAggOf(level) ==
    CASE level = "adm1_code" -> Admin1Agg(flood_df_subset)
      [] level = "ISO" -> CountryAgg(flood_df_subset)
      [] level = "UN Subregion" -> SubregionAgg(flood_df_subset)

\* The number of event records with a mon-yr, and of those with the value k in
\* column col of flood_df_subset.
Retained(col, k) == Len(SelectSeq(flood_df_subset.rows, LAMBDA r : r[col] = k))

\* C5 as stated: when the flood data has just been prepared (it is not assigned
\* again afterwards), flood_df_subset holds one row
\* per event record with a mon-yr, and each of them is in a group of the
\* admin1, the country and the subregion aggregation and of the annual totals.
C5_EveryTimedRecordGrouped ==
    (pc = "prep_countries") =>
        /\ Len(flood_df_subset.rows) = Len(TimedRecords)
        /\ \A i \in DOMAIN flood_df_subset.rows :
              /\ \A level \in Levels :
                    GroupsOf(LevelAggOf(level), level, flood_df_subset.rows[i]) # {}
              /\ GroupsOf(AnnualGlobal(flood_df_subset), "year", flood_df_subset.rows[i]) # {}

\* C5 amended: when the flood data has just been prepared, every event record
\* with a mon-yr is retained and is counted in
\* the one annual-totals row of its year and, at each level where its region
\* key is not missing, in the one group of that key; a record whose region key
\* is missing at a level is in no group of that level.
C5_TimedRecordGroupedWhereKeyed ==
    (pc = "prep_countries") =>
        /\ Len(flood_df_subset.rows) = Len(TimedRecords)
        /\ \A level \in Levels :
              LET agg == LevelAggOf(level)
              IN \A i \in DOMAIN flood_df_subset.rows :
                    LET r == flood_df_subset.rows[i]
                        g == GroupsOf(agg, level, r)
                    IN IF r[level] = NA THEN g = {}
                       ELSE /\ Cardinality(g) >= 1
                            /\ \A j \in g : agg.rows[j]["flood_count"] =
                                                Rat(Retained(level, r[level]), 1)
        /\ LET annual == AnnualGlobal(flood_df_subset)
           IN \A i \in DOMAIN flood_df_subset.rows :
                 LET r == flood_df_subset.rows[i]
                     g == GroupsOf(annual, "year", r)
                 IN /\ Cardinality(g) = 1
                    /\ \A j \in g : annual.rows[j]["flood_count"] =
                                        Rat(Retained("year", r["year"]), 1)

\* The flood data is prepared, with a record without mon-yr dropped, a record
\* without any region key retained and a record with all three keys retained.
C5_Witness ==
    /\ pc = "prep_countries"
    /\ Len(input_csv.rows) = 3
    /\ Len(flood_df_subset.rows) = 2
    /\ \E i \in DOMAIN flood_df_subset.rows :
          \A level \in Levels : flood_df_subset.rows[i][level] = NA
    /\ \E i \in DOMAIN flood_df_subset.rows :
          \A level \in Levels : flood_df_subset.rows[i][level] # NA

\* The export step that writes an output file.
ExportStepOf(path) == CHOOSE st \in ExportSteps : ExportPath[st] = path

\* C6 as stated: a run that failed, at whatever statement, left all five
\* output files as they were before the run.
C6_FailureLeavesOutputs == (pc = "failed") => (disk = prior)

\* C6 amended: a run that failed during read, transform or aggregation left all
\* five output files as they were before the run; a run that failed during
\* export left the files exported before the failing write rewritten, the file
\* of the failing write as it was or partly written, and the files not yet
\* reached as they were.
C6_FailureBeforeExportLeavesOutputs ==
    (pc = "failed") =>
        /\ (failed_at \notin ExportSteps) => (disk = prior)
        /\ (failed_at \in ExportSteps) =>
              \A f \in OutputFiles :
                  LET st == ExportStepOf(f)
                  IN IF st \in Range(log) THEN disk[f] = ExportFrame(st)
                     ELSE IF st = failed_at THEN disk[f] \in {prior[f], PartialFile}
                     ELSE disk[f] = prior[f]

\* A re-run fails in the aggregation, the files of the first run in place.
C6_Witness ==
    /\ pc = "failed"
    /\ failed_at = "agg_subregion"
    /\ run = 2
    /\ disk[ANNUAL_GLOBAL_FILEPATH].rows # <<>>

\* C7: no statement other than a read completes or starts, and no output file
\* changes, before all five inputs are read (and held in their frames); a run
\* that fails at a read has completed only reads and left every output file as
\* it was.
C7_ReadsBeforeAnythingElse ==
    /\ \A i \in DOMAIN log :
          (log[i] \notin ReadSteps) => (ReadSteps \subseteq {log[j] : j \in 1..(i - 1)})
    /\ (pc \in Range(Steps) \ ReadSteps) => (ReadSteps \subseteq Range(log))
    /\ (ReadSteps \subseteq Range(log)) =>
          /\ gaul_l1 # Unset /\ m49_df # Unset /\ countries_gdf # Unset
          /\ land_gdf # Unset /\ flood_df = input_csv
    /\ (disk # prior) => (ReadSteps \subseteq Range(log))
    /\ (pc = "failed" /\ failed_at \in ReadSteps) =>
          /\ disk = prior
          /\ Range(log) \subseteq ReadSteps

\* The flood CSV, the last input, cannot be read: the run ends there.
C7_Witness ==
    /\ pc = "failed"
    /\ failed_at = "read_flood"
    /\ Len(log) = 4
    /\ flood_df = Unset

C9_RawColumn ==
    "Economic Damages" :> "damages" @@
    "Population Affected" :> "pop_affected" @@
    "Flooded Area" :> "flooded_area" @@
    "Avg Precipitation (Flood)" :> "avg_precip" @@
    "Avg 75th Percentile Precipitation (Flood)" :> "extreme_precip_75"

C9_NormalizedColumn ==
    "Economic Damages" :> "damages_norm" @@
    "Population Affected" :> "pop_affected_norm" @@
    "Flooded Area" :> "flooded_area_norm"

C9_LowerCase == "Mean" :> "mean" @@ "Median" :> "median" @@ "Max" :> "max" @@ "Sum" :> "sum"

C9_Column(sel) ==
    IF sel.variable = "Flood Count" THEN "flood_count"
    ELSE (IF sel.normalize /\ sel.variable \in DOMAIN C9_NormalizedColumn
          THEN C9_NormalizedColumn[sel.variable]
          ELSE C9_RawColumn[sel.variable]) \o "_" \o C9_LowerCase[sel.agg_metric]

\* C9: the column the fragment on the page resolved is flood_count for Flood
\* Count, and otherwise <base>_<statistic in lower case> with the normalized
\* base only when normalize is set and the variable has one; for Flood Count
\* and the precipitation variables the other value of normalize resolves the
\* same column.
C9_ColumnResolution ==
    /\ (view = "Map View") =>
          /\ map_out.value_col = C9_Column(map_sel)
          /\ (map_sel.variable \notin DOMAIN C9_NormalizedColumn) =>
                map_out.value_col =
                    ValueCol(map_sel.variable, map_sel.agg_metric, ~map_sel.normalize)
    /\ (view = "Top Regions") =>
          /\ bar_out.value_col = C9_Column(bar_sel)
          /\ (bar_sel.variable \notin DOMAIN C9_NormalizedColumn) =>
                bar_out.value_col =
                    ValueCol(bar_sel.variable, bar_sel.agg_metric, ~bar_sel.normalize)

\* The map shows a precipitation variable with normalize set.
C9_Witness ==
    /\ view = "Map View"
    /\ map_sel.variable = "Avg Precipitation (Flood)"
    /\ map_sel.normalize
    /\ map_sel.agg_metric = "Median"
    /\ map_out.value_col = "avg_precip_median"

C10_Title(sel) ==
    CASE sel.variable = "Flood Count" -> "Flood Event Count"
      [] sel.variable \in {"Avg Precipitation (Flood)",
                           "Avg 75th Percentile Precipitation (Flood)"} ->
             sel.agg_metric \o " " \o sel.variable
      [] sel.variable = "Economic Damages" /\ sel.normalize ->
             sel.agg_metric \o " Economic Damages (% of GDP)"
      [] sel.variable = "Population Affected" /\ sel.normalize ->
             sel.agg_metric \o " Population Affected (% of Total)"
      [] sel.variable = "Flooded Area" /\ sel.normalize ->
             sel.agg_metric \o " Flooded Area (% of Total Area)"
      [] OTHER -> sel.agg_metric \o " " \o sel.variable

\* C10: the title the fragment on the page resolved is "Flood Event Count" for
\* Flood Count, "<statistic> <variable>" for the precipitation variables
\* whatever normalize is, the normalized label of the three impact variables
\* when normalize is set, and "<statistic> <variable>" otherwise.
C10_TitleResolution ==
    /\ (view = "Map View") => (map_out.title = C10_Title(map_sel))
    /\ (view = "Top Regions") => (bar_out.title = C10_Title(bar_sel))

\* The bar chart shows the normalized maximum of the flooded area.
C10_Witness ==
    /\ view = "Top Regions"
    /\ bar_sel.variable = "Flooded Area"
    /\ bar_sel.normalize
    /\ bar_out.title = "Max Flooded Area (% of Total Area)"

(***************************************************************************)
(* Claims about the Top Regions view                                       *)
(***************************************************************************)
\* The smaller of two numbers.
Min(a, b) == IF a < b THEN a ELSE b

\* C11: the selection holds min(N, rows) different rows of the table, in
\* decreasing order of the value with the rows without a value last, and no
\* row left out has a value larger than one selected, or a value when a row
\* without one is selected.
C11_TopNLargestDescending ==
    (top_n # Unset) =>
        LET rows == top_frame.rows
            sel == top_n.rows
        IN /\ Len(sel) = Min(top_num, Len(rows))
           /\ Range(sel) \subseteq Range(rows)
           /\ Cardinality(Range(sel)) = Len(sel)
           /\ \A k \in 1..(Len(sel) - 1) :
                 /\ sel[k]["value"] = NA => sel[k + 1]["value"] = NA
                 /\ sel[k + 1]["value"] # NA => ~RatLess(sel[k]["value"], sel[k + 1]["value"])
           /\ \A out \in Range(rows) \ Range(sel) : \A in \in Range(sel) :
                 out["value"] # NA =>
                     /\ in["value"] # NA
                     /\ ~RatLess(in["value"], out["value"])

\* The selection of 2 of {A: 10, B: 50, C: 30} is made and is [B, C].
C11_Witness ==
    /\ top_num = 2
    /\ [i \in DOMAIN top_frame.rows |-> top_frame.rows[i]["value"]] =
           <<Rat(10, 1), Rat(50, 1), Rat(30, 1)>>
    /\ top_n # Unset
    /\ [i \in DOMAIN top_n.rows |-> top_n.rows[i]["Region"]] = <<Some("B"), Some("C")>>

\* C12: in the Top Regions view the number of regions is between 5 and 30, and
\* at most 15 at the UN Subregion level, and the chart has at most that many
\* rows (none when the execution raised).
C12_NumRegionsBounded ==
    (view = "Top Regions") =>
        /\ 5 <= bar_sel.num_regions
        /\ bar_sel.num_regions <= (IF bar_sel.region = "UN Subregion" THEN 15 ELSE 30)
        /\ Len(bar_out.top_n.rows) <= bar_sel.num_regions

\* The admin1 table has more rows than the slider asks for, and the chart has
\* as many as asked.
C12_Witness ==
    /\ view = "Top Regions"
    /\ bar_sel.region = "Admin1 (States/Provinces)"
    /\ bar_sel.num_regions = 5
    /\ Len(bar_out.geo_data.rows) > 5
    /\ Len(bar_out.top_n.rows) = 5

\* The label of a row r of the table g at a level, as the region-display-name
\* rule gives it.
C13_Label(region, g, r) ==
    LET cols == Range(g.columns)
    IN CASE region = "Admin1 (States/Provinces)" ->
                IF "Admin1 (States/Provinces)" \in cols /\ "Country" \in cols
                THEN Some(AsStr(r["Admin1 (States/Provinces)"]) \o ", " \o AsStr(r["Country"]))
                ELSE r["adm1_code"]
         [] region = "Country" -> IF "Country" \in cols THEN r["Country"] ELSE r["ISO"]
         [] region = "UN Subregion" -> r["UN Subregion"]

\* C13: every row of the Top Regions chart is labelled by the rule, applied to
\* the row of the loaded table it was selected from.
C13_RegionLabel ==
    (view = "Top Regions" /\ ~bar_out.error) =>
        LET g == bar_out.geo_data
            picked == nlargest(g, bar_sel.num_regions, bar_out.value_col)
        IN /\ Len(bar_out.top_n.rows) = Len(picked.rows)
           /\ \A k \in DOMAIN picked.rows :
                 bar_out.top_n.rows[k]["Region"] = C13_Label(bar_sel.region, g, picked.rows[k])

\* The admin1 chart of the summed damages on a table with both name columns:
\* its first bar is "Galicia, Spain".
C13_Witness ==
    /\ view = "Top Regions"
    /\ bar_sel.region = "Admin1 (States/Provinces)"
    /\ bar_out.value_col = "damages_sum"
    /\ {"Admin1 (States/Provinces)", "Country"} \subseteq Range(bar_out.geo_data.columns)
    /\ bar_out.top_n.rows[1]["Region"] = Some("Galicia, Spain")

(***************************************************************************)
(* Claims about unresolved lookups, the cache and the cached tables        *)
(***************************************************************************)
\* The name columns the labels of a level are taken from.
NameCols(region) ==
    CASE region = "Admin1 (States/Provinces)" -> {"Admin1 (States/Provinces)", "Country"}
      [] region = "Country" -> {"Country"}
      [] region = "UN Subregion" -> {"UN Subregion"}

\* C14: an execution of map_fragment or bar_fragment whose value column or
\* name column is not in the loaded table raises.
C14_UnresolvedLookupRaises ==
    /\ (view = "Map View") =>
          (~({map_out.value_col, map_out.name_col} \subseteq Range(map_out.geo_data.columns))
              => map_out.error)
    /\ (view = "Top Regions") =>
          (~(({bar_out.value_col} \cup NameCols(bar_sel.region))
                 \subseteq Range(bar_out.geo_data.columns))
              => bar_out.error)

\* C15: no file is read by the dashboard more than once.
C15_EachFileReadOnce == \A f \in AppFiles : reads[f] # "again"

\* C16: the table a fragment got from its loader is, after the chart is built,
\* the table of the file, and so is every table in the cache.
C16_CachedTablesUnchanged ==
    /\ (view = "Map View") => map_out.geo_data = disk[LoaderFile(map_sel.region)]
    /\ (view = "Top Regions") => bar_out.geo_data = disk[LoaderFile(bar_sel.region)]
    /\ (view = "Global Annual Trends") => ts_out.annual_data = disk[ANNUAL_GLOBAL_FILEPATH]
    /\ \A k \in CacheKeys : cache[k] # Unset => cache[k] = disk[LoaderFile(k)]

\* The admin1 chart was built with the Display Name column, which the cached
\* table does not have, and the Country table was loaded before.
C16_Witness ==
    /\ view = "Top Regions"
    /\ bar_sel.region = "Admin1 (States/Provinces)"
    /\ bar_out.display_col = "Display Name"
    /\ ~bar_out.error
    /\ "Display Name" \notin Range(cache["Admin1 (States/Provinces)"].columns)
    /\ cache["Country"] # Unset

(***************************************************************************)
(* Claims about the rows and names of the aggregate tables                 *)
(***************************************************************************)
\* C17: after a complete run each of the admin1, country and subregion tables
\* has exactly one row per region key.
C17_OneRowPerRegionKey ==
    Done =>
        \A level \in Levels :
            LET rows == disk[LevelFile(level)].rows
            IN \A i, j \in DOMAIN rows : rows[i][level] = rows[j][level] => i = j

\* The first non-missing cell of column c among the records recs (NA if none).
RECURSIVE FirstNonNull(_, _)
FirstNonNull(recs, c) ==
    IF recs = <<>> THEN NA
    ELSE IF Head(recs)[c] # NA THEN Head(recs)[c]
    ELSE FirstNonNull(Tail(recs), c)

\* The admin1 name shown for a name cell and a code: the fallback for a missing
\* or sentinel name, the name itself otherwise.
ShownName(name, code) ==
    IF name = NA \/ name = Some(NameSentinel)
    THEN Some("Unknown Name (code: " \o ToString(Val(code)) \o ")")
    ELSE name

\* The Country of a record after the correction step.
CorrectedCountry(r) ==
    IF r["adm1_code"] # NA /\ Val(r["adm1_code"]) \in DOMAIN COUNTRY_CORRECTIONS
    THEN Some(COUNTRY_CORRECTIONS[Val(r["adm1_code"])])
    ELSE r["Country"]

\* C18: after a complete run, the admin1 name of every admin1 row is the first
\* non-missing adm1_name among the records of its adm1_code (shown through the
\* fallback when there is none or it is the sentinel).
C18_NameIsFirstNonNull ==
    Done =>
        \A row \in OutRows(ADMIN1_AGGREGATED_FILEPATH) :
            row["Admin1 (States/Provinces)"] =
                ShownName(FirstNonNull(TimedEvents("adm1_code", row["adm1_code"]), "adm1_name"),
                          row["adm1_code"])

C20_CorrectionChangesOnlyCountry ==
    (pc = "rename_flood") =>
        /\ Len(flood_df_subset.rows) = Len(TimedRecords)
        /\ \A i \in DOMAIN flood_df_subset.rows :
              LET before == TimedRecords[i]
                  after == flood_df_subset.rows[i]
              IN /\ DOMAIN after = DOMAIN before
                 /\ after["Country"] = CorrectedCountry(before)
                 /\ \A c \in DOMAIN before : c # "Country" => after[c] = before[c]

\* The correction step has just run on a file with a record of code 2720 filed
\* under Portugal, now under Spain, and a record of another code.
C20_Witness ==
    /\ pc = "rename_flood"
    /\ \E i \in DOMAIN flood_df_subset.rows :
          /\ flood_df_subset.rows[i]["adm1_code"] = Some(2720)
          /\ TimedRecords[i]["Country"] = Some("Portugal")
          /\ flood_df_subset.rows[i]["Country"] = Some("Spain")
    /\ \E i \in DOMAIN flood_df_subset.rows :
          /\ flood_df_subset.rows[i]["adm1_code"] = Some(20)
          /\ flood_df_subset.rows[i]["Country"] = Some("Portugal")

(***************************************************************************)
(* Claims about the annual totals and the statistics                       *)
(***************************************************************************)
\* The retained records (flood_df_subset) of a year.
YearRecords(y) == SelectSeq(flood_df_subset.rows, LAMBDA r : r["year"] = y)

\* C21: after a complete run the annual totals file has one row per year of
\* the retained records (those with a mon-yr), each metric column holding the
\* sum of the metric over the year's records and flood_count their number,
\* and its columns are year, the 8 metrics and flood_count: no geometry.
C21_AnnualTotalsAreSums ==
    Done =>
        LET t == disk[ANNUAL_GLOBAL_FILEPATH]
            years == {flood_df_subset.rows[i]["year"] : i \in DOMAIN flood_df_subset.rows}
        IN /\ Len(flood_df_subset.rows) = Len(TimedRecords)
           /\ {t.rows[i]["year"] : i \in DOMAIN t.rows} = years
           /\ Len(t.rows) = Cardinality(years)
           /\ Range(t.columns) = {"year", "flood_count"} \cup Range(metrics)
           /\ "geometry" \notin Range(t.columns)
           /\ \A i \in DOMAIN t.rows :
                 LET recs == YearRecords(t.rows[i]["year"])
                 IN /\ t.rows[i]["flood_count"] = Rat(Len(recs), 1)
                    /\ \A m \in Range(metrics) : t.rows[i][m] = Rat(CsvSum(recs, m), 1)

\* A complete run on records of 2020 and 2021, two of them of 2020 and one of
\* these without damages: the 2020 row sums the other's damages.
C21_Witness ==
    /\ Done
    /\ Len(disk[ANNUAL_GLOBAL_FILEPATH].rows) = 2
    /\ \E row \in OutRows(ANNUAL_GLOBAL_FILEPATH) :
          /\ row["year"] = Some(2020)
          /\ row["flood_count"] = Rat(2, 1)
          /\ row["damages"] = Rat(100000, 1)
          /\ \E r \in Range(YearRecords(Some(2020))) : r["damages"] = NA

\* The retained records with region key k at a level, and the values they have
\* for metric m.
KeyRecords(level, k) == SelectSeq(flood_df_subset.rows, LAMBDA r : r[level] = k)

MetricValues(recs, m) ==
    LET have == SelectSeq(recs, LAMBDA r : r[m] # NA)
    IN [i \in DOMAIN have |-> Val(have[i][m])]

\* The k-th smallest of the values v (1 <= k <= Len(v)).
KthSmallest(v, k) ==
    CHOOSE x \in Range(v) :
        /\ Cardinality({i \in DOMAIN v : v[i] < x}) < k
        /\ k <= Cardinality({i \in DOMAIN v : v[i] <= x})

\* The statistic func of the values v, stated from its definition.
Statistic(func, v) ==
    LET n == Len(v)
    IN CASE func = "sum" -> Rat(CsvSum([i \in DOMAIN v |-> [x |-> Some(v[i])]], "x"), 1)
         [] n = 0 /\ func # "sum" -> NA
         [] n > 0 /\ func = "mean" ->
                Rat(CsvSum([i \in DOMAIN v |-> [x |-> Some(v[i])]], "x"), n)
         [] n > 0 /\ func = "max" -> Rat(KthSmallest(v, n), 1)
         [] n > 0 /\ func = "median" ->
                Rat(KthSmallest(v, (n + 1) \div 2) + KthSmallest(v, (n + 2) \div 2), 2)

\* C22: after a complete run, at each of the three levels and for each of the
\* 8 metrics and 4 statistics, the column "<metric>_<statistic>" of every
\* output row holds that statistic of that metric over the retained records of
\* the row's region; the 32 names are distinct columns of the file.
C22_NamedColumnHoldsItsStatistic ==
    Done =>
        \A level \in Levels :
            LET t == disk[LevelFile(level)]
            IN /\ Cardinality({m \o "_" \o f : m \in Range(metrics), f \in Range(agg_funcs)}) = 32
               /\ \A m \in Range(metrics), f \in Range(agg_funcs) :
                     m \o "_" \o f \in Range(t.columns)
               /\ \A i \in DOMAIN t.rows :
                     LET recs == KeyRecords(level, t.rows[i][level])
                     IN \A m \in Range(metrics) :
                           LET v == MetricValues(recs, m)
                           IN \A f \in Range(agg_funcs) :
                                 t.rows[i][m \o "_" \o f] = Statistic(f, v)

\* A complete run whose subregion output has a row over three records whose
\* damages have four different statistics.
C22_Witness ==
    /\ Done
    /\ \E row \in OutRows(SUBREGION_AGGREGATED_FILEPATH) :
          /\ row["flood_count"] = Rat(3, 1)
          /\ row["damages_mean"] = Rat(150000, 1)
          /\ row["damages_median"] = Rat(100000, 1)
          /\ row["damages_max"] = Rat(300000, 1)
          /\ row["damages_sum"] = Rat(450000, 1)

(***************************************************************************)
(* Claims about the boundary files                                         *)
(***************************************************************************)
\* The administrative units of the flood dataset.
FloodUnits ==
    {input_csv.rows[i]["adm1_code"] : i \in DOMAIN input_csv.rows} \ {NA}

\* C23: once data_preprocessing.py has exported the GAUL level-1 file, every
\* administrative unit of the file is an administrative unit of the flood
\* dataset.
C23_GaulFileOnlyFloodUnits ==
    "boundary_export_gaul" \in Range(log) =>
        \A row \in OutRows(GAUL_L1_EXPORT_FILEPATH) : row["adm1_code"] \in FloodUnits

(***************************************************************************)
(* Claims about the columns and titles the dashboard resolves              *)
(***************************************************************************)
\* The raw metric, or the record count, of a variable of the time series.
RawColumn ==
    "Economic Damages" :> "damages" @@ "Population Affected" :> "pop_affected" @@
    "Flooded Area" :> "flooded_area" @@ "Flood Count" :> "flood_count"

\* The normalized metrics.
NormMetrics == {"damages_norm", "pop_affected_norm", "flooded_area_norm"}

\* The columns of every annual totals table the aggregator writes.
AnnualColumns == Range(AnnualGlobal(Frame(<<"year">> \o metrics, <<>>)).columns)

\* C24: whenever timeseries_fragment has executed, the column it plots is
\* flood_count or the raw metric of the selected variable, is not a normalized
\* metric, and is a column of the annual totals table written by the
\* aggregator, which is the table plotted.
C24_TimeSeriesPlotsRawColumn ==
    ts_sel # NoTsSel =>
        /\ ts_sel.variable \in Range(TsVariables)
        /\ ts_out.ts_col = RawColumn[ts_sel.variable]
        /\ ts_out.ts_col \notin NormMetrics
        /\ ts_out.annual_data = disk[ANNUAL_GLOBAL_FILEPATH]
        /\ Range(ts_out.annual_data.columns) = AnnualColumns
        /\ ts_out.ts_col \in AnnualColumns
        /\ ~ts_out.error

\* The time series of Population Affected is on the page.
C24_Witness ==
    /\ view = "Global Annual Trends"
    /\ ts_sel.variable = "Population Affected"
    /\ ts_out.ts_col = "pop_affected"
    /\ "pop_affected_norm" \in Range(ts_out.annual_data.columns)

\* The flood CSV behind the dashboard's files, and the files a complete run of
\* the aggregator writes on it.
AppFloodFile == Frame(app_cols, AppFloodRows)

AggregatorFiles == PipelineOutput(AppFloodFile)

\* C25: with the aggregator's files in DATA_DIR, whatever the selection of
\* map_fragment or bar_fragment (6 variables, 4 statistics, 3 levels,
\* normalize or not), the column resolved is a column of the aggregate table
\* of the selected level and the fragment raises no missing-column fault.
C25_ResolvedColumnExists ==
    (input_csv = AppFloodFile /\ disk = AggregatorFiles) =>
        /\ map_sel # NoSel =>
              /\ map_out.value_col \in Range(disk[LoaderFile(map_sel.region)].columns)
              /\ ~map_out.error
        /\ bar_sel # NoBarSel =>
              /\ bar_out.value_col \in Range(disk[LoaderFile(bar_sel.region)].columns)
              /\ ~bar_out.error

\* The map of a variable without a normalized metric, normalize set, on the
\* aggregator's subregion file.
C25_Witness ==
    /\ input_csv = AppFloodFile
    /\ disk = AggregatorFiles
    /\ view = "Map View"
    /\ map_sel = [variable |-> "Avg Precipitation (Flood)", agg_metric |-> "Max",
                  normalize |-> TRUE, region |-> "UN Subregion"]
    /\ map_out.value_col = "avg_precip_max"
    /\ ~map_out.error

\* The selection of bar_fragment without the number of regions, and a
\* selection of map_fragment with the slider's default.
MapSelOf(sel) ==
    [variable |-> sel.variable, agg_metric |-> sel.agg_metric,
     normalize |-> sel.normalize, region |-> sel.region]

BarSelOf(sel) ==
    [variable |-> sel.variable, agg_metric |-> sel.agg_metric,
     normalize |-> sel.normalize, region |-> sel.region, num_regions |-> SliderDefault]

\* C26: whatever selection (variable, statistic, level, normalize) one of
\* map_fragment and bar_fragment has executed on, the other fragment executed
\* on the same selection and table resolves the same column and the same title.
C26_MapAndBarAgree ==
    /\ map_sel # NoSel =>
          LET b == BarFragment(BarSelOf(map_sel), map_out.geo_data)
          IN b.value_col = map_out.value_col /\ b.title = map_out.title
    /\ bar_sel # NoBarSel =>
          LET m == MapFragment(MapSelOf(bar_sel), bar_out.geo_data)
          IN m.value_col = bar_out.value_col /\ m.title = bar_out.title

\* The top regions of a variable without a normalized metric, normalize set.
C26_Witness ==
    /\ view = "Top Regions"
    /\ bar_sel.variable = "Avg 75th Percentile Precipitation (Flood)"
    /\ bar_sel.normalize
    /\ bar_sel.agg_metric = "Median"
    /\ bar_out.value_col = "extreme_precip_75_median"
    /\ bar_out.title = "Median Avg 75th Percentile Precipitation (Flood)"

\* The titles with a normalized label, the titles without, and the columns of
\* the normalized metrics.
PercentTitles ==
    {s \o " " \o l : s \in {"Mean", "Median", "Max", "Sum"},
                     l \in {"Economic Damages (% of GDP)", "Population Affected (% of Total)",
                            "Flooded Area (% of Total Area)"}}

PlainTitles ==
    {"Flood Event Count"} \cup
    {s \o " " \o v : s \in {"Mean", "Median", "Max", "Sum"}, v \in Range(Variables)}

NormColumns == {m \o "_" \o f : m \in NormMetrics, f \in {"mean", "median", "max", "sum"}}

\* The title t and the column c agree about normalization.
SameNormalization(t, c) ==
    /\ t \in PercentTitles \cup PlainTitles
    /\ t \in PercentTitles <=> c \in NormColumns

\* C27: whatever selection map_fragment or bar_fragment has executed on, its
\* title has a "% of ..." label exactly when the column it resolved is a
\* column of a normalized metric.
C27_TitleAndColumnAgreeOnNormalization ==
    /\ map_sel # NoSel => SameNormalization(map_out.title, map_out.value_col)
    /\ bar_sel # NoBarSel => SameNormalization(bar_out.title, bar_out.value_col)

\* The map of the normalized damages.
C27_Witness ==
    /\ view = "Map View"
    /\ map_sel.normalize
    /\ map_out.title = "Sum Economic Damages (% of GDP)"
    /\ map_out.value_col = "damages_norm_sum"

(***************************************************************************)
(* Claims about the counts, the missing values and the subregion geometry  *)
(***************************************************************************)
\* The sum of flood_count over rows.
RECURSIVE FloodCountSum(_)
FloodCountSum(rows) ==
    IF rows = <<>> THEN 0
    ELSE LET n == Head(rows)["flood_count"]
         IN (CHOOSE k \in 0..Len(input_csv.rows) : n = Rat(k, 1)) + FloodCountSum(Tail(rows))

\* The records of the flood CSV with a mon-yr and a region key at a level.
KeyedRecords(level) == SelectSeq(TimedRecords, LAMBDA r : r[CsvKey(level)] # NA)

\* C28: after a complete run, flood_count summed over the rows of the annual
\* totals is the number of records with a mon-yr, and at each level
\* flood_count summed over the groups of the aggregation (the grouped
\* statistics with their count, before names and geometry are joined) is the
\* number of those records that have the level's region key.
C28_FloodCountsAddUp ==
    Done =>
        /\ FloodCountSum(disk[ANNUAL_GLOBAL_FILEPATH].rows) = Len(TimedRecords)
        /\ \A level \in Levels :
              FloodCountSum(LevelAgg(flood_df_subset, level).rows) = Len(KeyedRecords(level))

\* A complete run on a file with a record that has a mon-yr but no region
\* key: it is counted in its year and in no group of a level.
C28_Witness ==
    /\ Done
    /\ \E i \in DOMAIN input_csv.rows :
          /\ input_csv.rows[i]["mon-yr"] # NA
          /\ \A level \in Levels : input_csv.rows[i][CsvKey(level)] = NA
    /\ Len(input_csv.rows) = 3
    /\ FloodCountSum(disk[ANNUAL_GLOBAL_FILEPATH].rows) = 3
    /\ FloodCountSum(LevelAgg(flood_df_subset, "adm1_code").rows) = 2

\* The records of a group lack metric m in part, or all of them do.
LacksSome(recs, m) == \E i \in DOMAIN recs : recs[i][m] = NA

LacksAll(recs, m) == recs # <<>> /\ \A i \in DOMAIN recs : recs[i][m] = NA

\* C29: after a complete run, for every group of a level's aggregation and of
\* the annual totals in which a record lacks a metric: flood_count counts all
\* the group's records, mean, median, max and sum are those of the records
\* that have the metric, and when no record has it the sum is 0 and mean,
\* median and max are missing.
C29_MissingValuesSkippedButCounted ==
    Done =>
        /\ \A level \in Levels :
              LET agg == LevelAgg(flood_df_subset, level)
              IN \A i \in DOMAIN agg.rows :
                    LET row == agg.rows[i]
                        recs == KeyRecords(level, row[level])
                    IN \A m \in Range(metrics) :
                          LacksSome(recs, m) =>
                              LET v == MetricValues(recs, m)
                              IN /\ row["flood_count"] = Rat(Len(recs), 1)
                                 /\ Len(v) < Len(recs)
                                 /\ \A f \in Range(agg_funcs) :
                                       row[m \o "_" \o f] = Statistic(f, v)
                                 /\ LacksAll(recs, m) =>
                                       /\ row[m \o "_sum"] = Rat(0, 1)
                                       /\ row[m \o "_mean"] = NA
                                       /\ row[m \o "_median"] = NA
                                       /\ row[m \o "_max"] = NA
        /\ \A row \in OutRows(ANNUAL_GLOBAL_FILEPATH) :
              LET recs == YearRecords(row["year"])
              IN \A m \in Range(metrics) :
                    LacksSome(recs, m) =>
                        /\ row["flood_count"] = Rat(Len(recs), 1)
                        /\ row[m] = Statistic("sum", MetricValues(recs, m))
                        /\ LacksAll(recs, m) => row[m] = Rat(0, 1)

\* A complete run with a subregion group of two records, one without damages,
\* and an admin1 group whose only record has none.
C29_Witness ==
    /\ Done
    /\ \E row \in Range(LevelAgg(flood_df_subset, "UN Subregion").rows) :
          /\ row["flood_count"] = Rat(2, 1)
          /\ row["damages_mean"] = Rat(100000, 1)
          /\ LacksSome(KeyRecords("UN Subregion", row["UN Subregion"]), "damages")
    /\ \E row \in Range(LevelAgg(flood_df_subset, "adm1_code").rows) :
          /\ row["flood_count"] = Rat(1, 1)
          /\ row["damages_sum"] = Rat(0, 1)
          /\ row["damages_mean"] = NA
          /\ LacksAll(KeyRecords("adm1_code", row["adm1_code"]), "damages")

\* The polygons of the member countries of subregion k: the countries the M49
\* table lists under k that have a polygon in the countries file.
MemberPolygons(k) ==
    {Val(c["geometry"]) :
        c \in {c \in Range(CountriesFile.rows) :
                  /\ c["geometry"] # NA
                  /\ \E m \in Range(M49File.rows) :
                        /\ m["Sub-region Name"] = k
                        /\ m["ISO-alpha3 Code"] = c["ISO_A3"]}}

\* The subregions of the retained records.
RecordSubregions ==
    {flood_df_subset.rows[i]["UN Subregion"] : i \in DOMAIN flood_df_subset.rows} \ {NA}

\* C30: after a complete run, the geometry of every subregion, in
\* m49_subregion_gdf and in the subregion output, is made of the polygons of
\* its member countries that have one; a subregion without any has no
\* geometry row and, though records of it are retained, no row in the output.
C30_SubregionGeometryFromMemberPolygons ==
    Done =>
        /\ \A g \in Range(m49_subregion_gdf.rows) :
              /\ MemberPolygons(g["Subregion"]) # {}
              /\ g["geometry"] = Some(MemberPolygons(g["Subregion"]))
        /\ \A row \in OutRows(SUBREGION_AGGREGATED_FILEPATH) :
              /\ MemberPolygons(row["UN Subregion"]) # {}
              /\ row["geometry"] = Some(MemberPolygons(row["UN Subregion"]))
        /\ \A k \in RecordSubregions :
              MemberPolygons(k) = {} =>
                  /\ \A g \in Range(m49_subregion_gdf.rows) : g["Subregion"] # k
                  /\ \A row \in OutRows(SUBREGION_AGGREGATED_FILEPATH) : row["UN Subregion"] # k
        /\ \A k \in RecordSubregions :
              MemberPolygons(k) # {} =>
                  \E row \in OutRows(SUBREGION_AGGREGATED_FILEPATH) : row["UN Subregion"] = k

\* A complete run with retained records of Western Europe, whose only member
\* has no polygon, and of Southern Europe, which is in the output with the
\* polygons of three of its members.
C30_Witness ==
    /\ Done
    /\ Some("Western Europe") \in RecordSubregions
    /\ MemberPolygons(Some("Western Europe")) = {}
    /\ \A row \in OutRows(SUBREGION_AGGREGATED_FILEPATH) :
          row["UN Subregion"] # Some("Western Europe")
    /\ \E row \in OutRows(SUBREGION_AGGREGATED_FILEPATH) :
          /\ row["UN Subregion"] = Some("Southern Europe")
          /\ row["geometry"] = Some({"ne_PRT", "ne_ESP", "ne_ITA"})

====
